---- MODULE Spec2Model ----
(***************************************************************************)
(* SqliteNetworkController: the network-config request engine              *)
(* (doNetworkConfigRequest) and the administrative control plane           *)
(* (handleControlPlaneHttpPOST / handleControlPlaneHttpDELETE) over one    *)
(* relational store.  Every public operation takes the controller's lock   *)
(* for its whole body, so each operation is one atomic action; the         *)
(* threads that call the operations and the lock itself are modelled at    *)
(* the end of the module.                                                   *)
(*                                                                         *)
(* The schema file (schema.sql.c) and the blob/identity helpers are not    *)
(* part of the sources at hand; the store's behaviour on them is taken     *)
(* from the written specification and kept in the Store* definitions.      *)
(***************************************************************************)
EXTENDS Integers, Sequences, FiniteSets, TLC

VARIABLES
    network,        \* table Network:  nwid -> row | NoRow
    node,           \* table Node:     address -> row | NoRow
    member,         \* table Member:   <<nwid, address>> -> row | NoRow
    ipAssignment,   \* table IpAssignment: set of rows
    ipAssignmentPool, \* table IpAssignmentPool: set of rows
    route,          \* table Route: set of rows
    rule,           \* table Rule: rows in rowid (insertion) order
    now,            \* OSUtils::now()
    last,           \* the last operation: its arguments and what it returned
    lockOwner,      \* _lock: the thread that holds it, NoThread when free
    pc              \* thread -> where it is in the handler it runs

vars == <<network, node, member, ipAssignment, ipAssignmentPool, route, rule, now, last,
          lockOwner, pc>>

\* The lock and the threads: a step that is a whole operation, from taking
\* the lock to releasing it, leaves them as they are.
threads == <<lockOwner, pc>>

store == <<network, node, member, ipAssignment, ipAssignmentPool, route, rule>>

-----------------------------------------------------------------------------
(* Bounds of the model *)

MaxRev == 2          \* network POSTs are accepted while revision < MaxRev
MaxList == 1         \* longest JSON array in a POST body
MaxIp == 2           \* IPv4 host addresses 1 .. MaxIp (the low bits of 10.0.0.x)

(* Program constants *)

NwidShift == 24      \* nwid >> 24 is the controller address
Ipv4MaxBits == 32
EtherTypeMax == 65535

-----------------------------------------------------------------------------
(* Values *)

\* The threads that call the controller; NoThread holds a free lock.
Threads == {1, 2}
NoThread == 0

NoRow == [none |-> TRUE]  \* no row for the key (sqlite3_step gave no SQLITE_ROW)
NoAddr == "NoAddr"       \* an InetAddress that is nil (operator bool is false)

\* InetAddress(const char *): the family (4, or 0 when the string does not
\* parse) and the address.
V4(n) == [family |-> 4, ip |-> n]
NilInetAddress == [family |-> 0, ip |-> 0]

Pow2(n) == 2 ^ n

MkNwid(prefix, suffix) == prefix * Pow2(NwidShift) + suffix

\* Two network ids under the controller whose address is 1, and one under
\* another controller's address.
N1 == MkNwid(1, 1)
N2 == MkNwid(1, 2)
N3 == MkNwid(2, 1)
NwIds == {N1, N2, N3}

Addrs == {1, 2}
Keys == {1, 2}

\* Identity: address, public key, and whether the private key is held.
Identity(a, k, p) == [address |-> a, publicKey |-> k, hasPrivate |-> p]

\* Identity::toString(false): the public part only, as a string.
IdentityToString(id) == <<id.address, id.publicKey>>

\* Identity(const char *): parse a serialized public identity.
IdentityFromString(s) == Identity(s[1], s[2], FALSE)

\* Identity::operator== compares address and public key.
IdentityEq(a, b) == a.address = b.address /\ a.publicKey = b.publicKey

\* IPv4 address n stored as a 16-byte blob: twelve zero bytes, then n.
Ipv4ToBlob(n) == <<0, n>>
BlobToIpv4(b) == b[2]

EmptyDict == [k \in {} |-> 0]

\* An optional JSON field: <<>> when the body does not carry it, <<v>> otherwise.
Opt(S) == {<<>>} \cup {<<v>> : v \in S}
Has(f) == f # <<>>
Val(f) == f[1]

\* The sequences over S of length at most n.
SeqUpTo(S, n) == UNION {[1..k -> S] : k \in 0..n}

-----------------------------------------------------------------------------
(* Store: what the schema and SQLite do on the statements the code runs *)

\* INSERT INTO Network (id,name,creationTime,revision) VALUES (?,?,?,1):
\* the columns the statement does not name take the schema's defaults,
\* which the sources at hand do not show.
StoreNetworkDefaults == [private : BOOLEAN, v4AssignMode : {"none", "zt"}]

\* DELETE FROM Network WHERE id = ?, cascading to the child tables.
StoreDeleteNetwork(nwid) ==
    /\ network' = [network EXCEPT ![nwid] = NoRow]
    /\ member' = [p \in DOMAIN member |-> IF p[1] = nwid THEN NoRow ELSE member[p]]
    /\ ipAssignment' = {r \in ipAssignment : r.networkId # nwid}
    /\ ipAssignmentPool' = {r \in ipAssignmentPool : r.networkId # nwid}
    /\ route' = {r \in route : r.networkId # nwid}
    /\ rule' = SelectSeq(rule, LAMBDA r : r.networkId # nwid)

\* INSERT INTO IpAssignment: the table accepts any row (no uniqueness is
\* enforced by the store; the allocator checks before it inserts).
StoreInsertIpAssignment(rows, r) == rows \cup {r}

IpRow(nwid, addr, ip, bits, ver) ==
    [networkId |-> nwid, nodeId |-> addr, ip |-> ip, ipNetmaskBits |-> bits, ipVersion |-> ver]

-----------------------------------------------------------------------------
Init ==
    /\ network = [n \in NwIds |-> NoRow]
    /\ node = [a \in Addrs |-> NoRow]
    /\ member = [p \in NwIds \X Addrs |-> NoRow]
    /\ ipAssignment = {}
    /\ ipAssignmentPool = {}
    /\ route = {}
    /\ rule = <<>>
    /\ now = 1
    /\ last = [op |-> "init", nwid |-> 0, addr |-> 0, arg |-> EmptyDict,
               rc |-> "", netconf |-> EmptyDict]
    /\ lockOwner = NoThread
    /\ pc = [t \in Threads |-> "idle"]

-----------------------------------------------------------------------------
(* doNetworkConfigRequest *)

\* Create/update the Node record and check the identity (first come, first claim).
\* Variant of NodeStage in which the latest claimant of an address wins.
NodeStageRebind(fromAddr, identity) ==
    LET a == identity.address IN
    [ok |-> TRUE,
     node |-> [node EXCEPT ![a] =
                 [identity |-> IdentityToString(identity),
                  lastAt |-> IF fromAddr # NoAddr THEN fromAddr ELSE "",
                  lastSeen |-> now, firstSeen |-> now]]]

\* Variant of NodeStage whose update always writes lastAt (_sUpdateNode on
\* both branches).
NodeStageStampAll(fromAddr, identity) ==
    LET a == identity.address IN
    IF node[a] # NoRow
    THEN IF IdentityEq(IdentityFromString(node[a].identity), identity)
         THEN [ok |-> TRUE,
               node |-> [node EXCEPT ![a].lastSeen = now,
                                     ![a].lastAt = IF fromAddr # NoAddr THEN fromAddr ELSE ""]]
         ELSE [ok |-> FALSE, node |-> node]
    ELSE [ok |-> TRUE,
          node |-> [node EXCEPT ![a] =
                      [identity |-> IdentityToString(identity),
                       lastAt |-> IF fromAddr # NoAddr THEN fromAddr ELSE "",
                       lastSeen |-> now, firstSeen |-> now]]]

NodeStage(fromAddr, identity) ==
    LET a == identity.address IN
    IF node[a] # NoRow
    THEN IF IdentityEq(IdentityFromString(node[a].identity), identity)
         THEN [ok |-> TRUE,
               node |-> [node EXCEPT ![a].lastSeen = now,
                                     ![a].lastAt = IF fromAddr # NoAddr THEN fromAddr ELSE @]]
         ELSE [ok |-> FALSE, node |-> node]
    ELSE [ok |-> TRUE,
          node |-> [node EXCEPT ![a] =
                      [identity |-> IdentityToString(identity),
                       lastAt |-> IF fromAddr # NoAddr THEN fromAddr ELSE "",
                       lastSeen |-> now, firstSeen |-> now]]]

\* The authorization a request gives the Member row it creates.
\* Variants of RequestMemberAuthorized that ignore the network's privacy.
RequestMemberAuthorizedAlways(isPrivate) == TRUE
RequestMemberAuthorizedNever(isPrivate) == FALSE

RequestMemberAuthorized(isPrivate) == IF isPrivate THEN FALSE ELSE TRUE

\* Fetch the Member record, creating it for an unknown node.
MemberStage(nwid, a) ==
    IF member[<<nwid, a>>] # NoRow
    THEN member
    ELSE [member EXCEPT ![<<nwid, a>>] =
            [authorized |-> RequestMemberAuthorized(network[nwid].private),
             activeBridge |-> FALSE]]

\* Check member authorization.
\* Variant of MemberAuthorized that admits every member.
MemberAuthorizedAny(m) == TRUE

MemberAuthorized(m) == m.authorized

\* The revision short-circuit.
\* Variants of NotNewer: any revision at least the current one, and only
\* revisions beyond the current one.
NotNewerAtLeast(haveRevision, revision) == (haveRevision > 0) /\ (haveRevision >= revision)
NotNewerBeyond(haveRevision, revision) == (haveRevision > 0) /\ (haveRevision > revision)

NotNewer(haveRevision, revision) == (haveRevision > 0) /\ (haveRevision = revision)

\* _sGetActiveBridges
ActiveBridges(mb, nwid) ==
    {a \in Addrs : mb[<<nwid, a>>] # NoRow /\ mb[<<nwid, a>>].activeBridge
                                            /\ mb[<<nwid, a>>].authorized}

\* The member's IPv4 assignments that are emitted (prefix in 1..32).
V4Static(nwid, a) ==
    {<<BlobToIpv4(r.ip), r.ipNetmaskBits>> :
        r \in {x \in ipAssignment : /\ x.networkId = nwid /\ x.nodeId = a
                                    /\ x.ipVersion = 4
                                    /\ x.ipNetmaskBits > 0
                                    /\ x.ipNetmaskBits <= Ipv4MaxBits}}

\* sqlite3_column_int: the integer of a column, 0 when the column is NULL.
ColumnInt(f) == IF Has(f) THEN Val(f) ELSE 0

\* std::sort, as an insertion sort.
RECURSIVE SortInsert(_, _)
SortInsert(x, sq) ==
    IF sq = <<>> THEN <<x>>
    ELSE IF x <= Head(sq) THEN <<x>> \o sq
    ELSE <<Head(sq)>> \o SortInsert(x, Tail(sq))

RECURSIVE Sort(_)
Sort(sq) == IF sq = <<>> THEN <<>> ELSE SortInsert(Head(sq), Sort(Tail(sq)))

\* std::unique: of every run of equal neighbours the first is kept.
RECURSIVE Unique(_)
Unique(sq) ==
    IF Len(sq) < 2 THEN sq
    ELSE IF sq[1] = sq[2] THEN Unique(Tail(sq))
    ELSE <<sq[1]>> \o Unique(Tail(sq))

RECURSIVE EtherTypeColumn(_, _)
EtherTypeColumn(sq, k) ==
    IF k > Len(sq) THEN <<>>
    ELSE <<ColumnInt(sq[k].etherType)>> \o EtherTypeColumn(sq, k + 1)

\* _sGetEtherTypesFromRuleTable: the rows of the network whose action is
\* 'accept', in rowid order.
AcceptRules(nwid) ==
    SelectSeq(rule, LAMBDA r : r.networkId = nwid /\ r.action = <<"accept">>)

\* The value of the allowed-ether-types key: the etherType column of the
\* accept rules, those within 0..0xffff, sorted, without repetitions.
AllowedEtherTypes(nwid) ==
    Unique(Sort(SelectSeq(EtherTypeColumn(AcceptRules(nwid), 1),
                          LAMBDA et : et >= 0 /\ et <= EtherTypeMax)))

\* _sGetIpAssignmentPools: the network's pools joined with the routes whose
\* ip is the pool's routeIp.
PoolJoin(nwid) ==
    {[ipFirst |-> pr[1].ipFirst, ipLast |-> pr[1].ipLast,
      ipNetmaskBits |-> pr[2].ipNetmaskBits] :
        pr \in {x \in ipAssignmentPool \X route :
                  /\ x[1].networkId = nwid
                  /\ x[2].ip = x[1].routeIp
                  /\ x[2].ipVersion = 4}}

\* _sCheckIfIpIsAllocated
IpIsAllocated(nwid, n) ==
    \E r \in ipAssignment : r.networkId = nwid /\ r.ip = Ipv4ToBlob(n) /\ r.ipVersion = 4

\* The bounds of the scan of one joined pool row: both are read from column 0.
ScanFirst(j) == BlobToIpv4(j.ipFirst)
ScanLast(j) == BlobToIpv4(j.ipFirst)

\* The addresses of one joined pool row that the scan would take.
FreeInRow(nwid, j) ==
    IF (j.ipNetmaskBits > 0) /\ (j.ipNetmaskBits < Ipv4MaxBits)
    THEN {n \in ScanFirst(j)..ScanLast(j) : ~IpIsAllocated(nwid, n)}
    ELSE {}

Min(S) == CHOOSE x \in S : \A y \in S : x <= y

\* The joined rows that yield an address; the scan stops at the first of
\* them in the (unspecified) order the query returns its rows.
YieldingRows(nwid) == {j \in PoolJoin(nwid) : FreeInRow(nwid, j) # {}}

\* Dictionary::sign: the signature covers the keys present when it is made.
DictionarySign(d, signingId, t) ==
    d @@ ("~!sig" :> [signer |-> signingId.address, ts |-> t, over |-> DOMAIN d])

\* CertificateOfMembership(revision, maxDelta, nwid, address) signed by signingId.
MakeCom(revision, nwid, a, signingId) ==
    [revision |-> revision, nwid |-> nwid, issuedTo |-> a, signedBy |-> signingId.address]

ErrNoPrivate == "signing identity invalid or lacks private key"
ErrAddrMismatch == "signing identity address does not match most significant 40 bits of network ID"

\* Variant of DoNetworkConfigRequest that runs the Node stage before it checks
\* the signing identity.
DoNetworkConfigRequestNodeFirst(fromAddr, signingId, identity, nwid, haveRevision, j) ==
    LET a == identity.address
        ns == NodeStage(fromAddr, identity)
        mb == MemberStage(nwid, a)
        Ret(rc, nc, nd, m, ipa) ==
            /\ last' = [op |-> "request", nwid |-> nwid, addr |-> a,
                        arg |-> [fromAddr |-> fromAddr, signingId |-> signingId,
                                 identity |-> identity, haveRevision |-> haveRevision,
                                 foundMember |-> (member[<<nwid, a>>] # NoRow)],
                        rc |-> rc, netconf |-> nc]
            /\ node' = nd
            /\ member' = m
            /\ ipAssignment' = ipa
            /\ UNCHANGED <<network, ipAssignmentPool, route, now>>
        base == ("ts" :> now) @@ ("r" :> network[nwid].revision) @@ ("nwid" :> nwid)
                @@ ("id" :> a) @@ ("p" :> network[nwid].private)
                @@ ("et" :> AllowedEtherTypes(nwid))
        withAb == IF ActiveBridges(mb, nwid) # {}
                  THEN base @@ ("ab" :> ActiveBridges(mb, nwid)) ELSE base
        have == V4Static(nwid, a)
        auto == (network[nwid].v4AssignMode = "zt") /\ (have = {})
                    /\ (YieldingRows(nwid) # {})
        newIp == Min(FreeInRow(nwid, j))
        v4s == IF network[nwid].v4AssignMode # "zt" THEN {}
               ELSE IF have # {} THEN have
               ELSE IF auto THEN {<<newIp, j.ipNetmaskBits>>}
               ELSE {}
        ipa == IF auto
               THEN StoreInsertIpAssignment(ipAssignment,
                        IpRow(nwid, a, Ipv4ToBlob(newIp), j.ipNetmaskBits, 4))
               ELSE ipAssignment
        withV4 == IF v4s # {} THEN withAb @@ ("v4s" :> v4s) ELSE withAb
        withCom == IF network[nwid].private
                   THEN withV4 @@ ("com" :> MakeCom(network[nwid].revision, nwid, a, signingId))
                   ELSE withV4
    IN
    IF ~signingId.hasPrivate
    THEN j = NoRow /\ Ret("INTERNAL_SERVER_ERROR", "error" :> ErrNoPrivate,
                          IF ns.ok THEN ns.node ELSE node, member, ipAssignment)
    ELSE IF signingId.address # (nwid \div Pow2(NwidShift))
    THEN j = NoRow /\ Ret("INTERNAL_SERVER_ERROR", "error" :> ErrAddrMismatch,
                          IF ns.ok THEN ns.node ELSE node, member, ipAssignment)
    ELSE IF ~ns.ok
    THEN j = NoRow /\ Ret("ACCESS_DENIED", EmptyDict, node, member, ipAssignment)
    ELSE IF network[nwid] = NoRow
    THEN j = NoRow /\ Ret("OBJECT_NOT_FOUND", EmptyDict, ns.node, member, ipAssignment)
    ELSE IF ~MemberAuthorized(mb[<<nwid, a>>])
    THEN j = NoRow /\ Ret("ACCESS_DENIED", EmptyDict, ns.node, mb, ipAssignment)
    ELSE IF NotNewer(haveRevision, network[nwid].revision)
    THEN j = NoRow /\ Ret("OK_BUT_NOT_NEWER", EmptyDict, ns.node, mb, ipAssignment)
    ELSE /\ IF auto THEN j \in YieldingRows(nwid) ELSE j = NoRow
         /\ Ret("OK", DictionarySign(withCom, signingId, now), ns.node, mb, ipa)

\* Variant of DoNetworkConfigRequest that issues a certificate on every network.
DoNetworkConfigRequestComAlways(fromAddr, signingId, identity, nwid, haveRevision, j) ==
    LET a == identity.address
        ns == NodeStage(fromAddr, identity)
        mb == MemberStage(nwid, a)
        Ret(rc, nc, nd, m, ipa) ==
            /\ last' = [op |-> "request", nwid |-> nwid, addr |-> a,
                        arg |-> [fromAddr |-> fromAddr, signingId |-> signingId,
                                 identity |-> identity, haveRevision |-> haveRevision,
                                 foundMember |-> (member[<<nwid, a>>] # NoRow)],
                        rc |-> rc, netconf |-> nc]
            /\ node' = nd
            /\ member' = m
            /\ ipAssignment' = ipa
            /\ UNCHANGED <<network, ipAssignmentPool, route, now>>
        base == ("ts" :> now) @@ ("r" :> network[nwid].revision) @@ ("nwid" :> nwid)
                @@ ("id" :> a) @@ ("p" :> network[nwid].private)
                @@ ("et" :> AllowedEtherTypes(nwid))
        withAb == IF ActiveBridges(mb, nwid) # {}
                  THEN base @@ ("ab" :> ActiveBridges(mb, nwid)) ELSE base
        have == V4Static(nwid, a)
        auto == (network[nwid].v4AssignMode = "zt") /\ (have = {})
                    /\ (YieldingRows(nwid) # {})
        newIp == Min(FreeInRow(nwid, j))
        v4s == IF network[nwid].v4AssignMode # "zt" THEN {}
               ELSE IF have # {} THEN have
               ELSE IF auto THEN {<<newIp, j.ipNetmaskBits>>}
               ELSE {}
        ipa == IF auto
               THEN StoreInsertIpAssignment(ipAssignment,
                        IpRow(nwid, a, Ipv4ToBlob(newIp), j.ipNetmaskBits, 4))
               ELSE ipAssignment
        withV4 == IF v4s # {} THEN withAb @@ ("v4s" :> v4s) ELSE withAb
        withCom == IF TRUE
                   THEN withV4 @@ ("com" :> MakeCom(network[nwid].revision, nwid, a, signingId))
                   ELSE withV4
    IN
    IF ~signingId.hasPrivate
    THEN j = NoRow /\ Ret("INTERNAL_SERVER_ERROR", "error" :> ErrNoPrivate,
                          node, member, ipAssignment)
    ELSE IF signingId.address # (nwid \div Pow2(NwidShift))
    THEN j = NoRow /\ Ret("INTERNAL_SERVER_ERROR", "error" :> ErrAddrMismatch,
                          node, member, ipAssignment)
    ELSE IF ~ns.ok
    THEN j = NoRow /\ Ret("ACCESS_DENIED", EmptyDict, node, member, ipAssignment)
    ELSE IF network[nwid] = NoRow
    THEN j = NoRow /\ Ret("OBJECT_NOT_FOUND", EmptyDict, ns.node, member, ipAssignment)
    ELSE IF ~MemberAuthorized(mb[<<nwid, a>>])
    THEN j = NoRow /\ Ret("ACCESS_DENIED", EmptyDict, ns.node, mb, ipAssignment)
    ELSE IF NotNewer(haveRevision, network[nwid].revision)
    THEN j = NoRow /\ Ret("OK_BUT_NOT_NEWER", EmptyDict, ns.node, mb, ipAssignment)
    ELSE /\ IF auto THEN j \in YieldingRows(nwid) ELSE j = NoRow
         /\ Ret("OK", DictionarySign(withCom, signingId, now), ns.node, mb, ipa)

\* Variant of DoNetworkConfigRequest that looks the network up before it
\* checks the identity binding.
DoNetworkConfigRequestNetworkFirst(fromAddr, signingId, identity, nwid, haveRevision, j) ==
    LET a == identity.address
        ns == NodeStage(fromAddr, identity)
        mb == MemberStage(nwid, a)
        Ret(rc, nc, nd, m, ipa) ==
            /\ last' = [op |-> "request", nwid |-> nwid, addr |-> a,
                        arg |-> [fromAddr |-> fromAddr, signingId |-> signingId,
                                 identity |-> identity, haveRevision |-> haveRevision,
                                 foundMember |-> (member[<<nwid, a>>] # NoRow)],
                        rc |-> rc, netconf |-> nc]
            /\ node' = nd
            /\ member' = m
            /\ ipAssignment' = ipa
            /\ UNCHANGED <<network, ipAssignmentPool, route, now>>
        base == ("ts" :> now) @@ ("r" :> network[nwid].revision) @@ ("nwid" :> nwid)
                @@ ("id" :> a) @@ ("p" :> network[nwid].private)
                @@ ("et" :> AllowedEtherTypes(nwid))
        withAb == IF ActiveBridges(mb, nwid) # {}
                  THEN base @@ ("ab" :> ActiveBridges(mb, nwid)) ELSE base
        have == V4Static(nwid, a)
        auto == (network[nwid].v4AssignMode = "zt") /\ (have = {})
                    /\ (YieldingRows(nwid) # {})
        newIp == Min(FreeInRow(nwid, j))
        v4s == IF network[nwid].v4AssignMode # "zt" THEN {}
               ELSE IF have # {} THEN have
               ELSE IF auto THEN {<<newIp, j.ipNetmaskBits>>}
               ELSE {}
        ipa == IF auto
               THEN StoreInsertIpAssignment(ipAssignment,
                        IpRow(nwid, a, Ipv4ToBlob(newIp), j.ipNetmaskBits, 4))
               ELSE ipAssignment
        withV4 == IF v4s # {} THEN withAb @@ ("v4s" :> v4s) ELSE withAb
        withCom == IF network[nwid].private
                   THEN withV4 @@ ("com" :> MakeCom(network[nwid].revision, nwid, a, signingId))
                   ELSE withV4
    IN
    IF ~signingId.hasPrivate
    THEN j = NoRow /\ Ret("INTERNAL_SERVER_ERROR", "error" :> ErrNoPrivate,
                          node, member, ipAssignment)
    ELSE IF signingId.address # (nwid \div Pow2(NwidShift))
    THEN j = NoRow /\ Ret("INTERNAL_SERVER_ERROR", "error" :> ErrAddrMismatch,
                          node, member, ipAssignment)
    ELSE IF network[nwid] = NoRow
    THEN j = NoRow /\ Ret("OBJECT_NOT_FOUND", EmptyDict, node, member, ipAssignment)
    ELSE IF ~ns.ok
    THEN j = NoRow /\ Ret("ACCESS_DENIED", EmptyDict, node, member, ipAssignment)
    ELSE IF ~MemberAuthorized(mb[<<nwid, a>>])
    THEN j = NoRow /\ Ret("ACCESS_DENIED", EmptyDict, ns.node, mb, ipAssignment)
    ELSE IF NotNewer(haveRevision, network[nwid].revision)
    THEN j = NoRow /\ Ret("OK_BUT_NOT_NEWER", EmptyDict, ns.node, mb, ipAssignment)
    ELSE /\ IF auto THEN j \in YieldingRows(nwid) ELSE j = NoRow
         /\ Ret("OK", DictionarySign(withCom, signingId, now), ns.node, mb, ipa)

DoNetworkConfigRequest(fromAddr, signingId, identity, nwid, haveRevision, j) ==
    LET a == identity.address
        ns == NodeStage(fromAddr, identity)
        mb == MemberStage(nwid, a)
        Ret(rc, nc, nd, m, ipa) ==
            /\ last' = [op |-> "request", nwid |-> nwid, addr |-> a,
                        arg |-> [fromAddr |-> fromAddr, signingId |-> signingId,
                                 identity |-> identity, haveRevision |-> haveRevision,
                                 foundMember |-> (member[<<nwid, a>>] # NoRow)],
                        rc |-> rc, netconf |-> nc]
            /\ node' = nd
            /\ member' = m
            /\ ipAssignment' = ipa
            /\ UNCHANGED <<network, ipAssignmentPool, route, now>>
        base == ("ts" :> now) @@ ("r" :> network[nwid].revision) @@ ("nwid" :> nwid)
                @@ ("id" :> a) @@ ("p" :> network[nwid].private)
                @@ ("et" :> AllowedEtherTypes(nwid))
        withAb == IF ActiveBridges(mb, nwid) # {}
                  THEN base @@ ("ab" :> ActiveBridges(mb, nwid)) ELSE base
        have == V4Static(nwid, a)
        auto == (network[nwid].v4AssignMode = "zt") /\ (have = {})
                    /\ (YieldingRows(nwid) # {})
        newIp == Min(FreeInRow(nwid, j))
        v4s == IF network[nwid].v4AssignMode # "zt" THEN {}
               ELSE IF have # {} THEN have
               ELSE IF auto THEN {<<newIp, j.ipNetmaskBits>>}
               ELSE {}
        ipa == IF auto
               THEN StoreInsertIpAssignment(ipAssignment,
                        IpRow(nwid, a, Ipv4ToBlob(newIp), j.ipNetmaskBits, 4))
               ELSE ipAssignment
        withV4 == IF v4s # {} THEN withAb @@ ("v4s" :> v4s) ELSE withAb
        withCom == IF network[nwid].private
                   THEN withV4 @@ ("com" :> MakeCom(network[nwid].revision, nwid, a, signingId))
                   ELSE withV4
    IN
    IF ~signingId.hasPrivate
    THEN j = NoRow /\ Ret("INTERNAL_SERVER_ERROR", "error" :> ErrNoPrivate,
                          node, member, ipAssignment)
    ELSE IF signingId.address # (nwid \div Pow2(NwidShift))
    THEN j = NoRow /\ Ret("INTERNAL_SERVER_ERROR", "error" :> ErrAddrMismatch,
                          node, member, ipAssignment)
    ELSE IF ~ns.ok
    THEN j = NoRow /\ Ret("ACCESS_DENIED", EmptyDict, node, member, ipAssignment)
    ELSE IF network[nwid] = NoRow
    THEN j = NoRow /\ Ret("OBJECT_NOT_FOUND", EmptyDict, ns.node, member, ipAssignment)
    ELSE IF ~MemberAuthorized(mb[<<nwid, a>>])
    THEN j = NoRow /\ Ret("ACCESS_DENIED", EmptyDict, ns.node, mb, ipAssignment)
    ELSE IF NotNewer(haveRevision, network[nwid].revision)
    THEN j = NoRow /\ Ret("OK_BUT_NOT_NEWER", EmptyDict, ns.node, mb, ipAssignment)
    ELSE /\ IF auto THEN j \in YieldingRows(nwid) ELSE j = NoRow
         /\ Ret("OK", DictionarySign(withCom, signingId, now), ns.node, mb, ipa)

-----------------------------------------------------------------------------
(* doNetworkConfigRequest when a signature cannot be made *)

\* The signing steps at the end of the request that can fail.
SignFailPoints == {"com", "dictionary"}

ErrSignCom == "unable to sign COM"
ErrSignDictionary == "unable to sign netconf dictionary"

\* The request when com.sign (fail = "com") or netconf.sign (fail =
\* "dictionary") returns false: the request returns INTERNAL_SERVER_ERROR
\* at that step, with the dictionary as built so far plus the error key.
DoNetworkConfigRequestSignFailing(fromAddr, signingId, identity, nwid, haveRevision, j, fail) ==
    LET a == identity.address
        ns == NodeStage(fromAddr, identity)
        mb == MemberStage(nwid, a)
        Ret(rc, nc, nd, m, ipa) ==
            /\ last' = [op |-> "request", nwid |-> nwid, addr |-> a,
                        arg |-> [fromAddr |-> fromAddr, signingId |-> signingId,
                                 identity |-> identity, haveRevision |-> haveRevision,
                                 foundMember |-> (member[<<nwid, a>>] # NoRow),
                                 fail |-> fail],
                        rc |-> rc, netconf |-> nc]
            /\ node' = nd
            /\ member' = m
            /\ ipAssignment' = ipa
            /\ UNCHANGED <<network, ipAssignmentPool, route, now>>
        base == ("ts" :> now) @@ ("r" :> network[nwid].revision) @@ ("nwid" :> nwid)
                @@ ("id" :> a) @@ ("p" :> network[nwid].private)
                @@ ("et" :> AllowedEtherTypes(nwid))
        withAb == IF ActiveBridges(mb, nwid) # {}
                  THEN base @@ ("ab" :> ActiveBridges(mb, nwid)) ELSE base
        have == V4Static(nwid, a)
        auto == (network[nwid].v4AssignMode = "zt") /\ (have = {})
                    /\ (YieldingRows(nwid) # {})
        newIp == Min(FreeInRow(nwid, j))
        v4s == IF network[nwid].v4AssignMode # "zt" THEN {}
               ELSE IF have # {} THEN have
               ELSE IF auto THEN {<<newIp, j.ipNetmaskBits>>}
               ELSE {}
        ipa == IF auto
               THEN StoreInsertIpAssignment(ipAssignment,
                        IpRow(nwid, a, Ipv4ToBlob(newIp), j.ipNetmaskBits, 4))
               ELSE ipAssignment
        withV4 == IF v4s # {} THEN withAb @@ ("v4s" :> v4s) ELSE withAb
        withCom == IF network[nwid].private
                   THEN withV4 @@ ("com" :> MakeCom(network[nwid].revision, nwid, a, signingId))
                   ELSE withV4
    IN
    IF ~signingId.hasPrivate
    THEN j = NoRow /\ Ret("INTERNAL_SERVER_ERROR", "error" :> ErrNoPrivate,
                          node, member, ipAssignment)
    ELSE IF signingId.address # (nwid \div Pow2(NwidShift))
    THEN j = NoRow /\ Ret("INTERNAL_SERVER_ERROR", "error" :> ErrAddrMismatch,
                          node, member, ipAssignment)
    ELSE IF ~ns.ok
    THEN j = NoRow /\ Ret("ACCESS_DENIED", EmptyDict, node, member, ipAssignment)
    ELSE IF network[nwid] = NoRow
    THEN j = NoRow /\ Ret("OBJECT_NOT_FOUND", EmptyDict, ns.node, member, ipAssignment)
    ELSE IF ~MemberAuthorized(mb[<<nwid, a>>])
    THEN j = NoRow /\ Ret("ACCESS_DENIED", EmptyDict, ns.node, mb, ipAssignment)
    ELSE IF NotNewer(haveRevision, network[nwid].revision)
    THEN j = NoRow /\ Ret("OK_BUT_NOT_NEWER", EmptyDict, ns.node, mb, ipAssignment)
    ELSE /\ IF auto THEN j \in YieldingRows(nwid) ELSE j = NoRow
         /\ IF fail = "com" /\ network[nwid].private
            THEN Ret("INTERNAL_SERVER_ERROR", withV4 @@ ("error" :> ErrSignCom),
                     ns.node, mb, ipa)
            ELSE IF fail = "dictionary"
            THEN Ret("INTERNAL_SERVER_ERROR", withCom @@ ("error" :> ErrSignDictionary),
                     ns.node, mb, ipa)
            ELSE Ret("OK", DictionarySign(withCom, signingId, now), ns.node, mb, ipa)

-----------------------------------------------------------------------------
(* handleControlPlaneHttpPOST, /network/<nwid> *)

\* A posted route: {network, netmaskBits}; it is kept when it parses as an
\* IPv4 network with 0 < bits < 32.
RouteValid(e) == (e.netmaskBits > 0) /\ (e.network.family = 4) /\ (e.netmaskBits < Ipv4MaxBits)

RouteRow(nwid, e) ==
    [networkId |-> nwid, ip |-> Ipv4ToBlob(e.network.ip),
     ipNetmaskBits |-> e.netmaskBits, ipVersion |-> 4]

\* The loop over the posted routes: each pass adds the entry to the set of
\* routes if it is valid, deletes the network's routes and inserts the set.
RECURSIVE RoutesLoop(_, _, _, _, _)
RoutesLoop(nwid, list, kk, acc, rows) ==
    IF kk > Len(list) THEN rows
    ELSE LET acc2 == IF RouteValid(list[kk]) THEN acc \cup {list[kk]} ELSE acc
             rows2 == {r \in rows : r.networkId # nwid}
                          \cup {RouteRow(nwid, e) : e \in acc2}
         IN RoutesLoop(nwid, list, kk + 1, acc2, rows2)

\* A posted pool: {network, ipFirst, ipLast}; kept when the three parse to one family.
PoolValid(e) == (e.network.family = e.ipFirst.family) /\ (e.network.family = e.ipLast.family)

PoolRow(nwid, e) ==
    [networkId |-> nwid, routeIp |-> Ipv4ToBlob(e.network.ip),
     ipFirst |-> Ipv4ToBlob(e.ipFirst.ip), ipLast |-> Ipv4ToBlob(e.ipLast.ip)]

RECURSIVE PoolsLoop(_, _, _, _, _)
PoolsLoop(nwid, list, kk, acc, rows) ==
    IF kk > Len(list) THEN rows
    ELSE LET acc2 == IF PoolValid(list[kk]) THEN acc \cup {list[kk]} ELSE acc
             rows2 == {r \in rows : r.networkId # nwid}
                          \cup {PoolRow(nwid, e) : e \in acc2}
         IN PoolsLoop(nwid, list, kk + 1, acc2, rows2)

\* A posted rule carries what the handler requires of it: a ruleNo and a
\* non-empty action.
RuleComplete(rj) == Has(rj.ruleNo) /\ Has(rj.action) /\ Val(rj.action) # ""

\* An integer bound to a text column is stored as its decimal text.
DecimalText(n) == IF n = 0 THEN "0" ELSE IF n = 1 THEN "1" ELSE "2"

\* What _sCreateRule is given for its fifteenth and last parameter, the
\* "action" column: the binds of that index are those of rule.flags; the
\* bind of rule.action names index 17, which the statement does not have.
BoundAction(rj) == IF Has(rj.flags) THEN <<DecimalText(Val(rj.flags))>> ELSE <<>>

\* The row _sCreateRule inserts for a posted rule.
RuleRow(nwid, rj) ==
    [networkId |-> nwid, ruleNo |-> Val(rj.ruleNo),
     etherType |-> IF Has(rj.etherType)
                   THEN <<Val(rj.etherType) % (EtherTypeMax + 1)>> ELSE <<>>,
     action |-> BoundAction(rj)]

\* DELETE FROM Rule WHERE networkId = ?: the rows that stay.
OtherRules(nwid) == SelectSeq(rule, LAMBDA r : r.networkId # nwid)

\* INSERT INTO Rule: a row without action is refused when the column is
\* declared NOT NULL (the result of sqlite3_step is not looked at).
StoreInsertRule(rows, r, actionNotNull) ==
    IF actionNotNull /\ ~Has(r.action) THEN rows ELSE Append(rows, r)

RECURSIVE RulesLoop(_, _, _, _, _)
RulesLoop(nwid, list, kk, rows, actionNotNull) ==
    IF kk > Len(list) THEN rows
    ELSE RulesLoop(nwid, list, kk + 1,
            IF RuleComplete(list[kk])
            THEN StoreInsertRule(rows, RuleRow(nwid, list[kk]), actionNotNull)
            ELSE rows,
            actionNotNull)

\* The revision the POST writes: the one it read (0 for a new network) plus one.
\* Variant of BumpRevision that skips a revision.
BumpRevisionSkip(revision) == revision + 2

BumpRevision(revision) == revision + 1

PostNetwork(nwid, body, dflt) ==
    LET exists == network[nwid] # NoRow
        revision == IF exists THEN network[nwid].revision ELSE 0
        row0 == IF exists THEN network[nwid]
                ELSE [private |-> dflt.private, v4AssignMode |-> dflt.v4AssignMode,
                      revision |-> 1]
        row1 == [row0 EXCEPT
                    !.private = IF Has(body.private) THEN Val(body.private) ELSE @,
                    !.v4AssignMode = IF Has(body.v4AssignMode)
                                     THEN Val(body.v4AssignMode) ELSE @]
    IN
    /\ revision < MaxRev
    /\ IF exists THEN dflt = CHOOSE d \in StoreNetworkDefaults : TRUE
                 ELSE dflt \in StoreNetworkDefaults
    /\ network' = [network EXCEPT ![nwid] = [row1 EXCEPT !.revision = BumpRevision(revision)]]
    /\ route' = IF Has(body.routes)
                THEN RoutesLoop(nwid, Val(body.routes), 1, {}, route) ELSE route
    /\ ipAssignmentPool' = IF Has(body.ipAssignmentPools)
                THEN PoolsLoop(nwid, Val(body.ipAssignmentPools), 1, {}, ipAssignmentPool)
                ELSE ipAssignmentPool
    /\ \E actionNotNull \in BOOLEAN :
          rule' = IF "rules" \in DOMAIN body /\ Has(body.rules)
                  THEN RulesLoop(nwid, Val(body.rules), 1, OtherRules(nwid), actionNotNull)
                  ELSE rule
    /\ last' = [op |-> "postNetwork", nwid |-> nwid, addr |-> 0,
                arg |-> [body |-> body, created |-> ~exists],
                rc |-> "200", netconf |-> EmptyDict]
    /\ UNCHANGED <<node, member, ipAssignment, now>>

-----------------------------------------------------------------------------
(* handleControlPlaneHttpPOST, /network/<nwid>/member/<addr> *)

\* The authorization the POST gives the Member row it creates.
PostMemberAuthorized(isPrivate) == FALSE

\* Variant of InsertIpAssignments that stores a row for every entry of the
\* list, parsed or not.
InsertIpAssignmentsUnparsed(nwid, addr, list, kk, rows) ==
    rows \cup {IpRow(nwid, addr, Ipv4ToBlob(list[k].addr.ip), list[k].bits,
                     list[k].addr.family) : k \in kk..Len(list)}

\* A posted address "a.b.c.d/bits": the row it is stored as.
RECURSIVE InsertIpAssignments(_, _, _, _, _)
InsertIpAssignments(nwid, addr, list, kk, rows) ==
    IF kk > Len(list) THEN rows
    ELSE InsertIpAssignments(nwid, addr, list, kk + 1,
            IF list[kk].addr.family > 0
            THEN StoreInsertIpAssignment(rows,
                    IpRow(nwid, addr, Ipv4ToBlob(list[kk].addr.ip), list[kk].bits,
                          list[kk].addr.family))
            ELSE rows)

\* _doCPGet on the member path: the Member row joined with its Node row.
GetMemberStatus(mb, nwid, addr) ==
    IF mb[<<nwid, addr>>] # NoRow /\ node[addr] # NoRow THEN "200" ELSE "404"

PostMember(nwid, addr, body) ==
    LET m0 == IF member[<<nwid, addr>>] # NoRow THEN member[<<nwid, addr>>]
              ELSE [authorized |-> PostMemberAuthorized(network[nwid].private),
                    activeBridge |-> FALSE]
        m1 == [m0 EXCEPT
                 !.authorized = IF Has(body.authorized) THEN Val(body.authorized) ELSE @,
                 !.activeBridge = IF Has(body.activeBridge) THEN Val(body.activeBridge) ELSE @]
        mb == [member EXCEPT ![<<nwid, addr>>] = m1]
    IN
    IF network[nwid] = NoRow
    THEN /\ last' = [op |-> "postMember", nwid |-> nwid, addr |-> addr,
                     arg |-> [body |-> body], rc |-> "404", netconf |-> EmptyDict]
         /\ UNCHANGED <<store, now>>
    ELSE /\ member' = mb
         /\ ipAssignment' =
               IF Has(body.ipAssignments)
               THEN InsertIpAssignments(nwid, addr, Val(body.ipAssignments), 1,
                        {r \in ipAssignment : ~(r.networkId = nwid /\ r.nodeId = addr)})
               ELSE ipAssignment
         /\ last' = [op |-> "postMember", nwid |-> nwid, addr |-> addr,
                     arg |-> [body |-> body],
                     rc |-> GetMemberStatus(mb, nwid, addr), netconf |-> EmptyDict]
         /\ UNCHANGED <<network, node, ipAssignmentPool, route, now>>

-----------------------------------------------------------------------------
(* handleControlPlaneHttpDELETE *)

DeleteMember(nwid, addr) ==
    IF network[nwid] = NoRow \/ member[<<nwid, addr>>] = NoRow
    THEN /\ last' = [op |-> "deleteMember", nwid |-> nwid, addr |-> addr,
                     arg |-> EmptyDict, rc |-> "404", netconf |-> EmptyDict]
         /\ UNCHANGED <<store, now>>
    ELSE /\ ipAssignment' = {r \in ipAssignment : ~(r.networkId = nwid /\ r.nodeId = addr)}
         /\ member' = [member EXCEPT ![<<nwid, addr>>] = NoRow]
         /\ last' = [op |-> "deleteMember", nwid |-> nwid, addr |-> addr,
                     arg |-> EmptyDict, rc |-> "200", netconf |-> EmptyDict]
         /\ UNCHANGED <<network, node, ipAssignmentPool, route, now>>

\* Variant of DeleteNetwork that removes the Network row and nothing else.
DeleteNetworkRowOnly(nwid) ==
    IF network[nwid] = NoRow
    THEN /\ last' = [op |-> "deleteNetwork", nwid |-> nwid, addr |-> 0,
                     arg |-> EmptyDict, rc |-> "404", netconf |-> EmptyDict]
         /\ UNCHANGED <<store, now>>
    ELSE /\ network' = [network EXCEPT ![nwid] = NoRow]
         /\ last' = [op |-> "deleteNetwork", nwid |-> nwid, addr |-> 0,
                     arg |-> EmptyDict, rc |-> "200", netconf |-> EmptyDict]
         /\ UNCHANGED <<node, member, ipAssignment, ipAssignmentPool, route, now>>

DeleteNetwork(nwid) ==
    IF network[nwid] = NoRow
    THEN /\ last' = [op |-> "deleteNetwork", nwid |-> nwid, addr |-> 0,
                     arg |-> EmptyDict, rc |-> "404", netconf |-> EmptyDict]
         /\ UNCHANGED <<store, now>>
    ELSE /\ StoreDeleteNetwork(nwid)
         /\ last' = [op |-> "deleteNetwork", nwid |-> nwid, addr |-> 0,
                     arg |-> EmptyDict, rc |-> "200", netconf |-> EmptyDict]
         /\ UNCHANGED <<node, now>>

-----------------------------------------------------------------------------
(* Inputs *)

\* The controller's own signing identity, one without its private key, and
\* the signing identity of another controller.
Signers == {Identity(1, 1, TRUE), Identity(1, 1, FALSE), Identity(2, 1, TRUE)}
Requesters == {Identity(a, k, FALSE) : a \in Addrs, k \in Keys}

PostedRoutes == {[network |-> V4(0), netmaskBits |-> 24]}
PostedPools == {[network |-> V4(0), ipFirst |-> V4(1), ipLast |-> V4(MaxIp)]}
PostedIps == {[addr |-> V4(n), bits |-> 24] : n \in 1..MaxIp}
                \cup {[addr |-> NilInetAddress, bits |-> 0]}

Request(F, S, I, N, H) ==
    \E f \in F, s \in S, i \in I, n \in N, h \in H :
        \E j \in {NoRow} \cup PoolJoin(n) :
            DoNetworkConfigRequest(f, s, i, n, h, j)

-----------------------------------------------------------------------------
(* Admission: every signer and identity, one network that exists and one   *)
(* that never does, bodies that carry the scalar fields.                    *)

AdmNetworkBodies ==
    [private : Opt(BOOLEAN), v4AssignMode : {<<>>}, routes : {<<>>},
     ipAssignmentPools : {<<>>}]

AdmMemberBodies ==
    [authorized : Opt(BOOLEAN), activeBridge : {<<>>}, ipAssignments : {<<>>}]

Next ==
    \/ (Request({NoAddr}, Signers, Requesters, NwIds, 0..MaxRev))
            /\ UNCHANGED <<threads, rule>>
    \/ (\E b \in AdmNetworkBodies, d \in StoreNetworkDefaults : PostNetwork(N1, b, d))
            /\ UNCHANGED <<threads, rule>>
    \/ (\E a \in Addrs, b \in AdmMemberBodies : PostMember(N1, a, b))
            /\ UNCHANGED <<threads, rule>>
    \/ (\E a \in Addrs : DeleteMember(N1, a))
            /\ UNCHANGED <<threads, rule>>
    \/ (DeleteNetwork(N1))
            /\ UNCHANGED <<threads, rule>>

Spec == Init /\ [][Next]_vars

-----------------------------------------------------------------------------
(* Addressing: the controller's signer, one identity per address, one      *)
(* network, bodies that carry routes, pools and address assignments.       *)

IpNetworkBodies ==
    [private : {<<>>}, v4AssignMode : Opt({"none", "zt"}),
     routes : Opt(SeqUpTo(PostedRoutes, MaxList)),
     ipAssignmentPools : Opt(SeqUpTo(PostedPools, MaxList))]

IpMemberBodies ==
    [authorized : Opt({TRUE}), activeBridge : {<<>>},
     ipAssignments : Opt(SeqUpTo(PostedIps, MaxList))]

NextIp ==
    \/ (Request({NoAddr}, {Identity(1, 1, TRUE)}, {Identity(a, 1, FALSE) : a \in Addrs},
                {N1}, 0..MaxRev))
            /\ UNCHANGED <<threads, rule>>
    \/ (\E b \in IpNetworkBodies, d \in StoreNetworkDefaults : PostNetwork(N1, b, d))
            /\ UNCHANGED <<threads, rule>>
    \/ (\E a \in Addrs, b \in IpMemberBodies : PostMember(N1, a, b))
            /\ UNCHANGED <<threads, rule>>
    \/ (\E a \in Addrs : DeleteMember(N1, a))
            /\ UNCHANGED <<threads, rule>>
    \/ (DeleteNetwork(N1))
            /\ UNCHANGED <<threads, rule>>

SpecIp == Init /\ [][NextIp]_vars

-----------------------------------------------------------------------------
(* Properties.  A step of an operation is recognised by the record last'   *)
(* it writes; unprimed tables are the store before the operation, primed   *)
(* tables the store after it.                                               *)

\* The preconditions of a config request on its signing identity.
SignerValid(s, nwid) == s.hasPrivate /\ (s.address = nwid \div Pow2(NwidShift))

\* The requester's identity is the one bound to its address, or none is bound yet.
IdentityAccepted(tbl, i) ==
    (tbl[i.address] = NoRow)
        \/ IdentityEq(IdentityFromString(tbl[i.address].identity), i)

IsRequest(l) == l.op = "request"

\* A request that reaches the identity check (its signer is valid).
IsAdmittedRequest(l) == IsRequest(l) /\ SignerValid(l.arg.signingId, l.nwid)

\* A request that reaches the member lookup.
ReachesMember(l) ==
    /\ IsAdmittedRequest(l)
    /\ IdentityAccepted(node, l.arg.identity)
    /\ network[l.nwid] # NoRow

PayloadKeys == {"ts", "r", "nwid", "id", "p", "n", "eb", "pb", "et", "ml", "ab",
                "rl", "gw", "v4s", "com"}

\* C2 (as stated): once a Node row binds address addr to identity I, every
\* config request from addr with an identity that does not compare equal to
\* I is answered ACCESS_DENIED, whatever the network id, and the stored
\* identity is still I afterwards.
C2_Original ==
    [][ (/\ IsRequest(last')
         /\ node[last'.addr] # NoRow
         /\ ~IdentityEq(IdentityFromString(node[last'.addr].identity),
                        last'.arg.identity))
        => (/\ last'.rc = "ACCESS_DENIED"
            /\ node'[last'.addr].identity = node[last'.addr].identity)
      ]_vars

\* C2 (amended): once a Node row binds address addr to identity I, every
\* config request that passes the two checks of the signing identity and
\* comes from addr with an identity that does not compare equal to I is
\* answered ACCESS_DENIED, whatever the network id, and no operation ever
\* changes or removes the identity of an existing Node row.
C2_IdentityBinding ==
    [][ /\ (/\ IsAdmittedRequest(last')
            /\ node[last'.addr] # NoRow
            /\ ~IdentityEq(IdentityFromString(node[last'.addr].identity),
                           last'.arg.identity))
           => (last'.rc = "ACCESS_DENIED" /\ node'[last'.addr] = node[last'.addr])
        /\ \A a \in Addrs :
              node[a] # NoRow => (node'[a] # NoRow /\ node'[a].identity = node[a].identity)
      ]_vars

\* C2 witness: a request for a network that does not exist, from an address
\* bound to another identity, was answered ACCESS_DENIED.
C2_Witness ==
    /\ IsAdmittedRequest(last)
    /\ last.rc = "ACCESS_DENIED"
    /\ network[last.nwid] = NoRow
    /\ node[last.addr] # NoRow
    /\ ~IdentityEq(IdentityFromString(node[last.addr].identity), last.arg.identity)

\* What C3 says of the requests of a node that is not yet authorized on a
\* private network, and of who may authorize it.
C3_Gate ==
    /\ (/\ ReachesMember(last')
        /\ network[last'.nwid].private
        /\ member[<<last'.nwid, last'.addr>>] = NoRow)
       => (/\ last'.rc = "ACCESS_DENIED"
           /\ member'[<<last'.nwid, last'.addr>>] # NoRow
           /\ member'[<<last'.nwid, last'.addr>>].authorized = FALSE)
    /\ (/\ ReachesMember(last')
        /\ member[<<last'.nwid, last'.addr>>] # NoRow
        /\ ~member[<<last'.nwid, last'.addr>>].authorized)
       => (last'.rc = "ACCESS_DENIED" /\ member' = member)
    /\ \A p \in DOMAIN member :
          (member[p] # NoRow /\ ~member[p].authorized
                /\ member'[p] # NoRow /\ member'[p].authorized)
          => (/\ last'.op = "postMember"
              /\ <<last'.nwid, last'.addr>> = p
              /\ last'.arg.body.authorized = <<TRUE>>)

\* The request that follows the POST that set authorized=true, from the same node.
C3_AfterAuthorize ==
    /\ last.op = "postMember"
    /\ last.arg.body.authorized = <<TRUE>>
    /\ last'.nwid = last.nwid
    /\ last'.addr = last.addr
    /\ ReachesMember(last')

\* C3 (as stated): on a private network the first config request creates an
\* unauthorized Member row and is answered ACCESS_DENIED, further requests
\* are answered ACCESS_DENIED until an admin POST sets authorized=true, and
\* the next config request after that POST returns OK.
C3_Original ==
    [][ C3_Gate /\ (C3_AfterAuthorize => last'.rc = "OK") ]_vars

\* C3 (amended): as above, but the request after the POST returns OK unless
\* it carries the network's current revision, in which case it returns
\* OK_BUT_NOT_NEWER.
C3_PrivateGate ==
    [][ /\ C3_Gate
        /\ C3_AfterAuthorize =>
              last'.rc = IF NotNewer(last'.arg.haveRevision, network[last'.nwid].revision)
                         THEN "OK_BUT_NOT_NEWER" ELSE "OK"
      ]_vars

\* C3 witness: a member of a private network, which only the admin POST can
\* have authorized, was answered OK.
C3_Witness ==
    /\ IsAdmittedRequest(last)
    /\ last.rc = "OK"
    /\ network[last.nwid].private
    /\ member[<<last.nwid, last.addr>>].authorized

\* C4: the first config request of an address on a public network (valid
\* signer, identity accepted) leaves a Member row with authorized = true and
\* activeBridge = false, and is not answered ACCESS_DENIED.
C4_PublicAutoAdmit ==
    [][ (/\ ReachesMember(last')
         /\ ~network[last'.nwid].private
         /\ member[<<last'.nwid, last'.addr>>] = NoRow)
        => (/\ member'[<<last'.nwid, last'.addr>>]
                    = [authorized |-> TRUE, activeBridge |-> FALSE]
            /\ last'.rc # "ACCESS_DENIED")
      ]_vars

\* C4 witness: a request that found no Member row on a public network was served.
C4_Witness ==
    /\ IsAdmittedRequest(last)
    /\ ~last.arg.foundMember
    /\ network[last.nwid] # NoRow
    /\ ~network[last.nwid].private
    /\ last.rc \in {"OK", "OK_BUT_NOT_NEWER"}
    /\ member[<<last.nwid, last.addr>>].authorized

\* C5: a config request is answered OK or OK_BUT_NOT_NEWER only if the
\* member's row is authorized when the request looks at it (an existing
\* authorized row, or the row it has just created on a public network); if
\* the row is unauthorized and the signer, identity and network checks pass,
\* the answer is ACCESS_DENIED.
C5_OnlyAuthorizedServed ==
    [][ /\ (IsRequest(last') /\ last'.rc \in {"OK", "OK_BUT_NOT_NEWER"})
           => (/\ member'[<<last'.nwid, last'.addr>>] # NoRow
               /\ member'[<<last'.nwid, last'.addr>>].authorized
               /\ IF member[<<last'.nwid, last'.addr>>] # NoRow
                  THEN member[<<last'.nwid, last'.addr>>].authorized
                  ELSE ~network[last'.nwid].private)
        /\ (/\ ReachesMember(last')
            /\ \/ (/\ member[<<last'.nwid, last'.addr>>] # NoRow
                   /\ ~member[<<last'.nwid, last'.addr>>].authorized)
               \/ (/\ member[<<last'.nwid, last'.addr>>] = NoRow
                   /\ network[last'.nwid].private))
           => last'.rc = "ACCESS_DENIED"
      ]_vars

\* C5 witness: on a public network, a member the admin left unauthorized was denied.
C5_Witness ==
    /\ IsAdmittedRequest(last)
    /\ last.rc = "ACCESS_DENIED"
    /\ IdentityAccepted(node, last.arg.identity)
    /\ network[last.nwid] # NoRow
    /\ ~network[last.nwid].private
    /\ last.arg.foundMember
    /\ ~member[<<last.nwid, last.addr>>].authorized

\* C6 (as stated): a Member row is created with authorized = true on a
\* public network and authorized = false on a private one, by a config
\* request as well as by an admin member POST that carries no authorized field.
C6_DefaultAuthorization ==
    [][ \A p \in DOMAIN member :
          (/\ member[p] = NoRow
           /\ member'[p] # NoRow
           /\ (IsRequest(last')
                 \/ (last'.op = "postMember" /\ ~Has(last'.arg.body.authorized))))
          => member'[p].authorized = ~network[p[1]].private
      ]_vars

\* C1 (as stated): no two IpAssignment rows share (networkId, ip, ipVersion),
\* whether they were written by the admin member POST or by the
\* auto-allocator.
C1_IpUniqueness ==
    \A r1 \in ipAssignment : \A r2 \in ipAssignment :
        (/\ r1.networkId = r2.networkId
         /\ r1.ip = r2.ip
         /\ r1.ipVersion = r2.ipVersion) => r1 = r2

\* C7: the POST that creates a network leaves its revision at 1, and a POST
\* to an existing network raises the revision by exactly 1, whatever the body.
C7_RevisionStep ==
    [][ last'.op = "postNetwork" =>
          /\ last'.arg.created = (network[last'.nwid] = NoRow)
          /\ network'[last'.nwid].revision =
                IF last'.arg.created THEN 1 ELSE network[last'.nwid].revision + 1
      ]_vars

\* C7 witness: a POST carrying routes and pools to an existing network
\* left it at revision 2.
C7_Witness ==
    /\ last.op = "postNetwork"
    /\ ~last.arg.created
    /\ Has(last.arg.body.routes)
    /\ Has(last.arg.body.ipAssignmentPools)
    /\ network[last.nwid].revision = 2

\* C8 (as stated): a successful member POST and a successful member DELETE
\* raise the revision of the member's network by exactly 1.
C8_MemberMutationBumps ==
    [][ (last'.op \in {"postMember", "deleteMember"} /\ last'.rc = "200")
          => network'[last'.nwid].revision = network[last'.nwid].revision + 1
      ]_vars

\* A request that passes the signer, identity, network and authorization checks.
PassesChecks(l) ==
    /\ ReachesMember(l)
    /\ member'[<<l.nwid, l.addr>>].authorized

\* C9: for a config request that passes the signer, identity, network and
\* authorization checks, the answer is OK_BUT_NOT_NEWER exactly when
\* haveRevision > 0 and haveRevision is the network's revision, and OK
\* otherwise; a short-circuited answer carries no config payload key, and a
\* request with haveRevision = 0 is answered OK with the payload.
C9_ShortCircuit ==
    [][ PassesChecks(last') =>
          /\ (last'.rc = "OK_BUT_NOT_NEWER")
                <=> (/\ last'.arg.haveRevision > 0
                     /\ last'.arg.haveRevision = network[last'.nwid].revision)
          /\ last'.rc \in {"OK", "OK_BUT_NOT_NEWER"}
          /\ (last'.rc = "OK_BUT_NOT_NEWER")
                => (DOMAIN last'.netconf) \cap PayloadKeys = {}
          /\ (last'.arg.haveRevision = 0)
                => (last'.rc = "OK" /\ "r" \in DOMAIN last'.netconf)
      ]_vars

\* C9 witness: a request carrying the current revision was short-circuited.
C9_Witness ==
    /\ IsAdmittedRequest(last)
    /\ last.rc = "OK_BUT_NOT_NEWER"
    /\ last.arg.haveRevision = network[last.nwid].revision
    /\ member[<<last.nwid, last.addr>>].authorized

\* The store is unchanged but for lastSeen and lastAt of the Node row of addr.
OnlyNodeSeenChanged(addr) ==
    /\ UNCHANGED <<network, member, ipAssignment, ipAssignmentPool, route>>
    /\ \A a \in Addrs : a # addr => node'[a] = node[a]
    /\ node[addr] # NoRow
    /\ node'[addr] # NoRow
    /\ node'[addr].identity = node[addr].identity
    /\ node'[addr].firstSeen = node[addr].firstSeen

C16_FailedRequestChangesNothing ==
    [][ (/\ IsRequest(last')
         /\ last'.rc \in {"INTERNAL_SERVER_ERROR", "OBJECT_NOT_FOUND", "ACCESS_DENIED"})
        => UNCHANGED <<node, member, ipAssignment>>
      ]_vars

-----------------------------------------------------------------------------
(* Allocation: a public network whose POSTs carry up to MaxPools pools, two *)
(* nodes that ask for their configuration, and admin-written addresses.     *)

MaxPools == 2        \* longest ipAssignmentPools array of a POST body

\* A pool of MaxIp addresses, the same pool with its bounds exchanged, and a
\* pool of one address above them.
AllocPools ==
    {[network |-> V4(0), ipFirst |-> V4(1), ipLast |-> V4(MaxIp)],
     [network |-> V4(0), ipFirst |-> V4(MaxIp), ipLast |-> V4(1)],
     [network |-> V4(0), ipFirst |-> V4(MaxIp + 1), ipLast |-> V4(MaxIp + 1)]}

\* An address with a prefix length, and one posted as "a.b.c.d/0".
AllocIps == {[addr |-> V4(1), bits |-> 24], [addr |-> V4(MaxIp), bits |-> 0]}

AllocNetworkBodies ==
    [private : {<<>>}, v4AssignMode : Opt({"zt"}),
     routes : Opt({<<r>> : r \in PostedRoutes}),
     ipAssignmentPools : Opt(SeqUpTo(AllocPools, MaxPools))]

AllocMemberBodies ==
    [authorized : Opt({TRUE}), activeBridge : {<<>>},
     ipAssignments : Opt(SeqUpTo(AllocIps, MaxList))]

NextAlloc ==
    \/ (Request({NoAddr}, {Identity(1, 1, TRUE)}, {Identity(a, 1, FALSE) : a \in Addrs},
                {N1}, {0}))
            /\ UNCHANGED <<threads, rule>>
    \/ (\E b \in AllocNetworkBodies :
           \E d \in {x \in StoreNetworkDefaults : ~x.private} : PostNetwork(N1, b, d))
            /\ UNCHANGED <<threads, rule>>
    \/ (\E a \in Addrs, b \in AllocMemberBodies : PostMember(N1, a, b))
            /\ UNCHANGED <<threads, rule>>
    \/ (\E a \in Addrs : DeleteMember(N1, a))
            /\ UNCHANGED <<threads, rule>>

SpecAlloc == Init /\ [][NextAlloc]_vars

\* The pools as the allocator is meant to read them: the addresses from
\* ipFirst to ipLast, and the routes a pool is paired with.
PoolRange(p) == BlobToIpv4(p.ipFirst)..BlobToIpv4(p.ipLast)
PairedRoutes(p) == {r \in route : r.ip = p.routeIp /\ r.ipVersion = 4}
UsablePools(nwid) ==
    {p \in ipAssignmentPool : p.networkId = nwid /\ PairedRoutes(p) # {}}
FreeInPool(nwid, p) == {n \in PoolRange(p) : ~IpIsAllocated(nwid, n)}
MemberV4Rows(nwid, a) ==
    {r \in ipAssignment : r.networkId = nwid /\ r.nodeId = a /\ r.ipVersion = 4}

\* A request that comes to the allocator: the checks pass, the network
\* assigns addresses and the member has no IPv4 row.
ComesToAllocator(l) ==
    /\ PassesChecks(l)
    /\ network[l.nwid].v4AssignMode = "zt"
    /\ MemberV4Rows(l.nwid, l.addr) = {}

\* C11 (as stated): on a public network with v4AssignMode "zt" and one pool,
\* each node that asks while the pool still holds a free address is answered
\* OK with an address of [ipFirst, ipLast] that no other node holds.
C11_DistinctAddresses ==
    [][ (/\ ComesToAllocator(last')
         /\ ~network[last'.nwid].private
         /\ Cardinality(UsablePools(last'.nwid)) = 1
         /\ \E p \in UsablePools(last'.nwid) : FreeInPool(last'.nwid, p) # {})
        => (/\ last'.rc = "OK"
            /\ "v4s" \in DOMAIN last'.netconf
            /\ \E e \in last'.netconf["v4s"] :
                  /\ \E p \in UsablePools(last'.nwid) : e[1] \in PoolRange(p)
                  /\ ~IpIsAllocated(last'.nwid, e[1]))
      ]_vars

\* C12 (as stated): the allocator gives the requester the numerically lowest
\* address of [ipFirst, ipLast] that has no IpAssignment row in the network.
C12_LowestFree ==
    [][ \A p \in ipAssignmentPool :
          (/\ ComesToAllocator(last')
           /\ UsablePools(last'.nwid) = {p}
           /\ FreeInPool(last'.nwid, p) # {})
          => \E rt \in PairedRoutes(p) :
                ipAssignment' = ipAssignment \cup
                    {IpRow(last'.nwid, last'.addr,
                           Ipv4ToBlob(Min(FreeInPool(last'.nwid, p))),
                           rt.ipNetmaskBits, 4)}
      ]_vars

\* C13 (as stated): every row a config request inserts has an ip within
\* [ipFirst, ipLast] of a pool of the same network and the prefix length of
\* a route paired with that pool.
C13_AllocationSound ==
    [][ IsRequest(last') =>
          \A r \in ipAssignment' \ ipAssignment :
             \E p \in ipAssignmentPool :
                /\ p.networkId = r.networkId
                /\ BlobToIpv4(r.ip) \in PoolRange(p)
                /\ \E rt \in PairedRoutes(p) : rt.ipNetmaskBits = r.ipNetmaskBits
      ]_vars

\* C14 (as stated): a pool without free address is passed over for the next
\* pool, and when no pool of the network has a free address (or none is
\* usable) the request returns OK, inserts no row and emits no IPv4 key.
C14_Exhaustion ==
    [][ ComesToAllocator(last') =>
          /\ last'.rc = "OK"
          /\ (\E p, q \in UsablePools(last'.nwid) :
                  FreeInPool(last'.nwid, p) = {} /\ FreeInPool(last'.nwid, q) # {})
                => ipAssignment' # ipAssignment
          /\ (\A p \in UsablePools(last'.nwid) : FreeInPool(last'.nwid, p) = {})
                => (/\ ipAssignment' = ipAssignment
                    /\ "v4s" \notin DOMAIN last'.netconf)
      ]_vars

\* C15 (as stated): a config request inserts a row only when v4AssignMode
\* is "zt" and the member has no IPv4 IpAssignment row, whatever the prefix
\* length of the rows it has.
C15_OnlyWithoutAddress ==
    [][ IsRequest(last') =>
          /\ (ipAssignment' # ipAssignment)
                => network[last'.nwid].v4AssignMode = "zt"
          /\ MemberV4Rows(last'.nwid, last'.addr) # {}
                => ipAssignment' = ipAssignment
      ]_vars

-----------------------------------------------------------------------------
(* handleControlPlaneHttpPOST, /network/<nwid>, when one store write fails. *)
(* The body's keys are handled in the order private, v4AssignMode, routes,  *)
(* ipAssignmentPools; the handler opens no transaction.                      *)

\* The write that fails: the insert of the Network row, the update of a
\* scalar column, the first insert of a pass over the posted routes or
\* pools, or the update of the revision.
FailPoints == {"create", "private", "v4AssignMode", "routes", "ipAssignmentPools",
               "revision"}

PostNetworkFailing(nwid, body, dflt, fail) ==
    LET exists == network[nwid] # NoRow
        revision == IF exists THEN network[nwid].revision ELSE 0
        row0 == IF exists THEN network[nwid]
                ELSE [private |-> dflt.private, v4AssignMode |-> dflt.v4AssignMode,
                      revision |-> 1]
        \* a scalar update whose step fails is not noticed: the loop goes on
        row1 == [row0 EXCEPT
                    !.private = IF Has(body.private) /\ fail # "private"
                                THEN Val(body.private) ELSE @,
                    !.v4AssignMode = IF Has(body.v4AssignMode) /\ fail # "v4AssignMode"
                                     THEN Val(body.v4AssignMode) ELSE @]
        routesDone == IF Has(body.routes)
                      THEN RoutesLoop(nwid, Val(body.routes), 1, {}, route) ELSE route
        poolsDone == IF Has(body.ipAssignmentPools)
                     THEN PoolsLoop(nwid, Val(body.ipAssignmentPools), 1, {},
                                    ipAssignmentPool)
                     ELSE ipAssignmentPool
        Ret(rc, nw, rt, pl) ==
            /\ network' = nw
            /\ route' = rt
            /\ ipAssignmentPool' = pl
            /\ last' = [op |-> "postNetwork", nwid |-> nwid, addr |-> 0,
                        arg |-> [body |-> body, created |-> ~exists, fail |-> fail],
                        rc |-> rc, netconf |-> EmptyDict]
            /\ UNCHANGED <<node, member, ipAssignment, now>>
    IN
    /\ revision < MaxRev
    /\ IF exists THEN dflt = CHOOSE d \in StoreNetworkDefaults : TRUE
                 ELSE dflt \in StoreNetworkDefaults
    /\ CASE fail = "create" ->
              /\ ~exists
              /\ Ret("500", network, route, ipAssignmentPool)
         [] fail \in {"private", "v4AssignMode"} ->
              /\ Has(body[fail])
              /\ Ret("200",
                     [network EXCEPT ![nwid] =
                         [row1 EXCEPT !.revision = BumpRevision(revision)]],
                     routesDone, poolsDone)
         [] fail = "routes" ->
              /\ Has(body.routes)
              /\ \E k \in DOMAIN Val(body.routes) : RouteValid(Val(body.routes)[k])
              /\ Ret("500", [network EXCEPT ![nwid] = row1],
                     {r \in route : r.networkId # nwid}, ipAssignmentPool)
         [] fail = "ipAssignmentPools" ->
              /\ Has(body.ipAssignmentPools)
              /\ \E k \in DOMAIN Val(body.ipAssignmentPools) :
                    PoolValid(Val(body.ipAssignmentPools)[k])
              /\ Ret("500", [network EXCEPT ![nwid] = row1], routesDone,
                     {r \in ipAssignmentPool : r.networkId # nwid})
         [] fail = "revision" ->
              Ret("200", [network EXCEPT ![nwid] = row1], routesDone, poolsDone)

FailNetworkBodies ==
    [private : Opt(BOOLEAN), v4AssignMode : Opt({"zt"}),
     routes : Opt(SeqUpTo(PostedRoutes, MaxList)),
     ipAssignmentPools : Opt(SeqUpTo(PostedPools, MaxList))]

NextFail ==
    \/ (\E b \in FailNetworkBodies, d \in StoreNetworkDefaults : PostNetwork(N1, b, d))
            /\ UNCHANGED <<threads, rule>>
    \/ (\E b \in FailNetworkBodies, d \in StoreNetworkDefaults, f \in FailPoints :
           PostNetworkFailing(N1, b, d, f))
            /\ UNCHANGED <<threads, rule>>
    \/ (DeleteNetwork(N1))
            /\ UNCHANGED <<threads, rule>>

SpecFail == Init /\ [][NextFail]_vars

\* C17 (as stated): a POST /network/<nwid> that returns 500 leaves none of
\* its scalar patches, deletions or inserts in the store, and the revision
\* unchanged.
C17_FailedPostChangesNothing ==
    [][ (last'.op = "postNetwork" /\ last'.rc = "500")
          => UNCHANGED <<network, route, ipAssignmentPool>>
      ]_vars

\* C18 (as stated): a POST /network/<nwid> bumps the revision only if every
\* store mutation succeeded: a failed scalar update makes it return 500
\* with the revision unchanged, and a POST that returns 200 has applied
\* every requested mutation.
C18_BumpOnlyAfterSuccess ==
    [][ last'.op = "postNetwork" =>
          /\ ("fail" \in DOMAIN last'.arg /\ last'.arg.fail \in {"private", "v4AssignMode"})
                => (/\ last'.rc = "500"
                    /\ network[last'.nwid] # NoRow
                          => network'[last'.nwid].revision = network[last'.nwid].revision)
          /\ last'.rc = "200" =>
                /\ Has(last'.arg.body.private)
                      => network'[last'.nwid].private = Val(last'.arg.body.private)
                /\ Has(last'.arg.body.v4AssignMode)
                      => network'[last'.nwid].v4AssignMode = Val(last'.arg.body.v4AssignMode)
      ]_vars

\* The rows a list of posted routes, pools or addresses stands for.
RowsOfRoutes(nwid, list) ==
    {RouteRow(nwid, list[k]) : k \in {i \in DOMAIN list : RouteValid(list[i])}}
RowsOfPools(nwid, list) ==
    {PoolRow(nwid, list[k]) : k \in {i \in DOMAIN list : PoolValid(list[i])}}
RowsOfIps(nwid, addr, list) ==
    {IpRow(nwid, addr, Ipv4ToBlob(list[k].addr.ip), list[k].bits, list[k].addr.family) :
        k \in {i \in DOMAIN list : list[i].addr.family > 0}}

\* C19 (as stated): after a successful POST /network/<nwid> that carries
\* routes or ipAssignmentPools with list L, the network's rows of that
\* collection are exactly the valid entries of L, for every length of L.
C19_CollectionRewrite ==
    [][ (last'.op = "postNetwork" /\ last'.rc = "200") =>
          /\ Has(last'.arg.body.routes) =>
                {r \in route' : r.networkId = last'.nwid}
                    = RowsOfRoutes(last'.nwid, Val(last'.arg.body.routes))
          /\ Has(last'.arg.body.ipAssignmentPools) =>
                {r \in ipAssignmentPool' : r.networkId = last'.nwid}
                    = RowsOfPools(last'.nwid, Val(last'.arg.body.ipAssignmentPools))
      ]_vars

-----------------------------------------------------------------------------
(* Member POST as an upsert *)

\* C21 (as stated): a member POST on an existing network leaves a Member row
\* for (nwid, addr) and answers 200, whether or not the address has a Node
\* row.
C21_MemberUpsert ==
    [][ (last'.op = "postMember" /\ network[last'.nwid] # NoRow) =>
          /\ member'[<<last'.nwid, last'.addr>>] # NoRow
          /\ last'.rc = "200"
      ]_vars

-----------------------------------------------------------------------------
(* Deletion: two networks of the controller, members with and without a   *)
(* Node row, addresses, routes and pools; DELETE with a failing statement. *)

\* The statements of DELETE .../member/<addr> that can fail.
DeleteFailPoints == {"ipAssignments", "member"}

\* Variant of DeleteMemberFailing that deletes the Member row before the
\* member's IpAssignment rows.
DeleteMemberFailingMemberFirst(nwid, addr, fail) ==
    IF network[nwid] = NoRow \/ member[<<nwid, addr>>] = NoRow
    THEN /\ last' = [op |-> "deleteMember", nwid |-> nwid, addr |-> addr,
                     arg |-> [fail |-> fail], rc |-> "404", netconf |-> EmptyDict]
         /\ UNCHANGED <<store, now>>
    ELSE /\ member' = IF fail = "member" THEN member
                      ELSE [member EXCEPT ![<<nwid, addr>>] = NoRow]
         /\ ipAssignment' = ipAssignment
         /\ last' = [op |-> "deleteMember", nwid |-> nwid, addr |-> addr,
                     arg |-> [fail |-> fail], rc |-> "500", netconf |-> EmptyDict]
         /\ UNCHANGED <<network, node, ipAssignmentPool, route, now>>

\* DELETE .../member/<addr> when the statement `fail` does not end with
\* SQLITE_DONE: the statements before it have taken effect, the handler
\* returns 500 at it.
DeleteMemberFailing(nwid, addr, fail) ==
    IF network[nwid] = NoRow \/ member[<<nwid, addr>>] = NoRow
    THEN /\ last' = [op |-> "deleteMember", nwid |-> nwid, addr |-> addr,
                     arg |-> [fail |-> fail], rc |-> "404", netconf |-> EmptyDict]
         /\ UNCHANGED <<store, now>>
    ELSE /\ ipAssignment' =
               IF fail = "ipAssignments" THEN ipAssignment
               ELSE {r \in ipAssignment : ~(r.networkId = nwid /\ r.nodeId = addr)}
         /\ member' = member
         /\ last' = [op |-> "deleteMember", nwid |-> nwid, addr |-> addr,
                     arg |-> [fail |-> fail], rc |-> "500", netconf |-> EmptyDict]
         /\ UNCHANGED <<network, node, ipAssignmentPool, route, now>>

DelNets == {N1, N2}

DelNetworkBodies ==
    [private : {<<>>}, v4AssignMode : {<<>>},
     routes : Opt({<<r>> : r \in PostedRoutes}),
     ipAssignmentPools : Opt({<<p>> : p \in PostedPools})]

DelMemberBodies ==
    [authorized : {<<>>}, activeBridge : {<<>>},
     ipAssignments : Opt({<<[addr |-> V4(1), bits |-> 24]>>})]

NextDel ==
    \/ (Request({NoAddr}, {Identity(1, 1, TRUE)}, {Identity(1, 1, FALSE)}, DelNets, {0}))
            /\ UNCHANGED <<threads, rule>>
    \/ (\E n \in DelNets, b \in DelNetworkBodies :
             PostNetwork(n, b, [private |-> FALSE, v4AssignMode |-> "none"]))
            /\ UNCHANGED <<threads, rule>>
    \/ (\E n \in DelNets, a \in Addrs, b \in DelMemberBodies : PostMember(n, a, b))
            /\ UNCHANGED <<threads, rule>>
    \/ (\E n \in DelNets, a \in Addrs : DeleteMember(n, a))
            /\ UNCHANGED <<threads, rule>>
    \/ (\E n \in DelNets, a \in Addrs, f \in DeleteFailPoints : DeleteMemberFailing(n, a, f))
            /\ UNCHANGED <<threads, rule>>
    \/ (\E n \in DelNets : DeleteNetwork(n))
            /\ UNCHANGED <<threads, rule>>

SpecDel == Init /\ [][NextDel]_vars

\* The rows of the child tables that belong to network nwid, and the rest.
RowsOfNetwork(tbl, nwid) == {r \in tbl : r.networkId = nwid}
RowsOfOthers(tbl, nwid) == {r \in tbl : r.networkId # nwid}

C23_DeleteMemberOrder ==
    [][ (last'.op = "deleteMember") =>
          LET key == <<last'.nwid, last'.addr>>
              Mine(r) == r.networkId = last'.nwid /\ r.nodeId = last'.addr
          IN
          /\ (network[last'.nwid] = NoRow \/ member[key] = NoRow)
                <=> (last'.rc = "404")
          /\ (last'.rc = "404") => UNCHANGED store
          /\ (last'.rc = "200") =>
                /\ member'[key] = NoRow
                /\ {r \in ipAssignment' : Mine(r)} = {}
          /\ (member[key] # NoRow /\ member'[key] = NoRow) =>
                {r \in ipAssignment' : Mine(r)} = {}
          /\ \A p \in DOMAIN member : p # key => member'[p] = member[p]
          /\ {r \in ipAssignment' : ~Mine(r)} = {r \in ipAssignment : ~Mine(r)}
          /\ UNCHANGED <<network, node, ipAssignmentPool, route>>
      ]_vars

\* C23 witness: a member that held an address has been deleted while
\* another member of the network keeps its address.
C23_Witness ==
    /\ last.op = "deleteMember"
    /\ last.rc = "200"
    /\ member[<<last.nwid, last.addr>>] = NoRow
    /\ \E r \in ipAssignment : r.networkId = last.nwid /\ r.nodeId # last.addr

-----------------------------------------------------------------------------
(* The answers of the config engine *)

\* C24: a config request whose signing identity lacks its private key, or
\* whose address is not nwid >> 24, is answered INTERNAL_SERVER_ERROR with a
\* dictionary that holds the error key and nothing else, and no Node, Member,
\* IpAssignment or other row is created or updated, whoever asks and for
\* whatever network.
C24_SignerRejected ==
    [][ (IsRequest(last') /\ ~SignerValid(last'.arg.signingId, last'.nwid)) =>
          /\ last'.rc = "INTERNAL_SERVER_ERROR"
          /\ DOMAIN last'.netconf = {"error"}
          /\ last'.netconf["error"] =
                IF ~last'.arg.signingId.hasPrivate THEN ErrNoPrivate ELSE ErrAddrMismatch
          /\ UNCHANGED store
      ]_vars

\* C24 witness: a request under the signing identity of another controller,
\* for a network that exists, from an address that has no Node row, was
\* rejected.
C24_Witness ==
    /\ IsRequest(last)
    /\ last.arg.signingId.hasPrivate
    /\ ~SignerValid(last.arg.signingId, last.nwid)
    /\ last.rc = "INTERNAL_SERVER_ERROR"
    /\ network[last.nwid] # NoRow
    /\ node[last.addr] = NoRow

\* Signing: the controller's signer, one identity per address, one network
\* that is private or public, requests whose signatures can fail.
NextSign ==
    \/ (Request({NoAddr}, {Identity(1, 1, TRUE)}, {Identity(a, 1, FALSE) : a \in Addrs},
                {N1}, 0..MaxRev))
            /\ UNCHANGED <<threads, rule>>
    \/ (\E i \in {Identity(a, 1, FALSE) : a \in Addrs}, h \in 0..MaxRev, f \in SignFailPoints :
             DoNetworkConfigRequestSignFailing(NoAddr, Identity(1, 1, TRUE), i, N1, h, NoRow, f))
            /\ UNCHANGED <<threads, rule>>
    \/ (\E b \in AdmNetworkBodies, d \in StoreNetworkDefaults : PostNetwork(N1, b, d))
            /\ UNCHANGED <<threads, rule>>
    \/ (\E a \in Addrs, b \in AdmMemberBodies : PostMember(N1, a, b))
            /\ UNCHANGED <<threads, rule>>

SpecSign == Init /\ [][NextSign]_vars

\* The dictionary carries a signature of signer s made over all its other keys.
SignedBy(d, s) ==
    /\ "~!sig" \in DOMAIN d
    /\ d["~!sig"].signer = s.address
    /\ d["~!sig"].over = DOMAIN d \ {"~!sig"}

\* C25 (as stated): a config request that does not return OK returns a
\* dictionary with none of the config payload keys, and one that returns OK
\* returns a dictionary signed by the signing identity over every key it
\* holds.
C25_NeverPartial ==
    [][ IsRequest(last') =>
          /\ (last'.rc # "OK") => (DOMAIN last'.netconf \cap PayloadKeys = {})
          /\ (last'.rc = "OK") => SignedBy(last'.netconf, last'.arg.signingId)
      ]_vars

\* C26: a dictionary returned with OK holds the com key exactly when the
\* network is private at the time of the request, and the certificate is
\* made for (network.revision, nwid, requester address) and signed by the
\* signing identity, its revision being the one under the key r.
C26_ComIffPrivate ==
    [][ (IsRequest(last') /\ last'.rc = "OK") =>
          /\ ("com" \in DOMAIN last'.netconf) <=> network[last'.nwid].private
          /\ ("com" \in DOMAIN last'.netconf) =>
                /\ last'.netconf["com"].revision = network[last'.nwid].revision
                /\ last'.netconf["com"].revision = last'.netconf["r"]
                /\ last'.netconf["com"].nwid = last'.nwid
                /\ last'.netconf["com"].issuedTo = last'.arg.identity.address
                /\ last'.netconf["com"].signedBy = last'.arg.signingId.address
      ]_vars

\* C26 witness: a member of a private network whose revision has moved on
\* was answered OK with a certificate.
C26_Witness ==
    /\ IsRequest(last)
    /\ last.rc = "OK"
    /\ "com" \in DOMAIN last.netconf
    /\ last.netconf["com"].revision > 1
    /\ last.netconf["com"].issuedTo = 2

-----------------------------------------------------------------------------
(* Threads and the controller's lock.  Each public operation constructs a  *)
(* Mutex::Lock on _lock before its first store access and holds it until   *)
(* it returns.  _doCPGet, which runs with the lock held, calls              *)
(* doNetworkConfigRequest when the query string carries memberIdentity and *)
(* signingIdentity, and that call constructs a second Mutex::Lock on the   *)
(* same lock in the same thread.                                            *)

\* The public operations a thread can call.
Handlers == {"request", "get", "post", "delete"}

\* What the query string of a GET carries: nothing, identities of which the
\* signing one has no private key, or identities that lead to the call.
GetQueries == {"none", "noPrivate", "call"}

\* Variant of Lock that does not wait for the lock to be free.
LockUnguarded(t, h) ==
    /\ pc[t] = "idle"
    /\ lockOwner' = t
    /\ pc' = [pc EXCEPT ![t] = h]
    /\ UNCHANGED <<store, now, last>>

\* Mutex::Lock _l(_lock) at the head of handler h: taken when the lock is free.
Lock(t, h) ==
    /\ pc[t] = "idle"
    /\ lockOwner = NoThread
    /\ lockOwner' = t
    /\ pc' = [pc EXCEPT ![t] = h]
    /\ UNCHANGED <<store, now, last>>

\* The handler returns: the Mutex::Lock goes out of scope.
Unlock(t) ==
    /\ lockOwner' = NoThread
    /\ pc' = [pc EXCEPT ![t] = "idle"]

LockSigner == Identity(1, 1, TRUE)
LockRequesters == {Identity(a, 1, FALSE) : a \in Addrs}
LockNetworkBody == [private |-> <<>>, v4AssignMode |-> <<>>, routes |-> <<>>,
                    ipAssignmentPools |-> <<>>]
LockNetworkDefaults == [private |-> FALSE, v4AssignMode |-> "none"]

\* The body of doNetworkConfigRequest called by the transport.
RequestBody(t) ==
    /\ pc[t] = "request"
    /\ Request({NoAddr}, {LockSigner}, LockRequesters, {N1}, {0})
    /\ Unlock(t)

\* The body of handleControlPlaneHttpPOST.
PostBody(t) ==
    /\ pc[t] = "post"
    /\ \/ PostNetwork(N1, LockNetworkBody, LockNetworkDefaults)
       \/ \E a \in Addrs, b \in AdmMemberBodies : PostMember(N1, a, b)
    /\ Unlock(t)

\* The body of handleControlPlaneHttpDELETE.
DeleteBody(t) ==
    /\ pc[t] = "delete"
    /\ \/ \E a \in Addrs : DeleteMember(N1, a)
       \/ DeleteNetwork(N1)
    /\ Unlock(t)

\* Variant of GetMember that calls the request whatever the signing identity
\* of the query is (no sigid.hasPrivate()).
GetMemberNoPrivateCheck(t, nwid, addr, query) ==
    /\ pc[t] = "get"
    /\ UNCHANGED <<store, now>>
    /\ IF GetMemberStatus(member, nwid, addr) = "404"
       THEN /\ last' = [op |-> "getMember", nwid |-> nwid, addr |-> addr,
                        arg |-> [query |-> query, netconfResult |-> ""],
                        rc |-> "404", netconf |-> EmptyDict]
            /\ Unlock(t)
       ELSE IF query = "none"
       THEN /\ last' = [op |-> "getMember", nwid |-> nwid, addr |-> addr,
                        arg |-> [query |-> query, netconfResult |-> ""],
                        rc |-> "200", netconf |-> EmptyDict]
            /\ Unlock(t)
       ELSE /\ last' = [op |-> "getMember", nwid |-> nwid, addr |-> addr,
                        arg |-> [query |-> query, netconfResult |-> ""],
                        rc |-> "", netconf |-> EmptyDict]
            /\ pc' = [pc EXCEPT ![t] = "getRequest"]
            /\ UNCHANGED lockOwner

\* _doCPGet on /network/<nwid>/member/<addr>: 404 without the joined
\* Member and Node rows; otherwise the member view, and with memberIdentity
\* and signingIdentity in the query the embedded config request.
GetMember(t, nwid, addr, query) ==
    /\ pc[t] = "get"
    /\ UNCHANGED <<store, now>>
    /\ IF GetMemberStatus(member, nwid, addr) = "404"
       THEN /\ last' = [op |-> "getMember", nwid |-> nwid, addr |-> addr,
                        arg |-> [query |-> query, netconfResult |-> ""],
                        rc |-> "404", netconf |-> EmptyDict]
            /\ Unlock(t)
       ELSE IF query = "none"
       THEN /\ last' = [op |-> "getMember", nwid |-> nwid, addr |-> addr,
                        arg |-> [query |-> query, netconfResult |-> ""],
                        rc |-> "200", netconf |-> EmptyDict]
            /\ Unlock(t)
       ELSE IF query = "noPrivate"
       THEN /\ last' = [op |-> "getMember", nwid |-> nwid, addr |-> addr,
                        arg |-> [query |-> query,
                                 netconfResult |-> "INTERNAL_SERVER_ERROR"],
                        rc |-> "200", netconf |-> EmptyDict]
            /\ Unlock(t)
       ELSE /\ last' = [op |-> "getMember", nwid |-> nwid, addr |-> addr,
                        arg |-> [query |-> query, netconfResult |-> ""],
                        rc |-> "", netconf |-> EmptyDict]
            /\ pc' = [pc EXCEPT ![t] = "getRequest"]
            /\ UNCHANGED lockOwner

\* this->doNetworkConfigRequest(...) inside _doCPGet: its Mutex::Lock is
\* constructed on the lock the thread already holds.  A mutex that is not
\* recursive never returns from it; a recursive one lets the request run.
EmbeddedRequest(t) ==
    /\ pc[t] = "getRequest"
    /\ \/ /\ pc' = [pc EXCEPT ![t] = "blocked"]
          /\ UNCHANGED <<store, now, last, lockOwner>>
       \/ /\ Request({NoAddr}, {LockSigner}, LockRequesters, {N1}, {0})
          /\ pc' = [pc EXCEPT ![t] = "getReturn"]
          /\ UNCHANGED lockOwner

\* _doCPGet appends netconf and netconfResult and returns 200.
GetReturn(t) ==
    /\ pc[t] = "getReturn"
    /\ last' = [op |-> "getMember", nwid |-> last.nwid, addr |-> last.addr,
                arg |-> [query |-> "call", netconfResult |-> last.rc],
                rc |-> "200", netconf |-> last.netconf]
    /\ Unlock(t)
    /\ UNCHANGED <<store, now>>

ThreadNext(t) ==
    \/ (\E h \in Handlers : Lock(t, h)) /\ UNCHANGED rule
    \/ (RequestBody(t)) /\ UNCHANGED rule
    \/ (PostBody(t)) /\ UNCHANGED rule
    \/ (DeleteBody(t)) /\ UNCHANGED rule
    \/ (\E a \in Addrs, q \in GetQueries : GetMember(t, N1, a, q)) /\ UNCHANGED rule
    \/ (EmbeddedRequest(t)) /\ UNCHANGED rule
    \/ (GetReturn(t)) /\ UNCHANGED rule

NextLock == \E t \in Threads : ThreadNext(t)

SpecLock == Init /\ [][NextLock]_vars

\* The scheduler runs every thread that can take a step.
SpecLockFair == SpecLock /\ \A t \in Threads : WF_vars(ThreadNext(t))

\* The threads between the first and the last store access of an operation.
InOperation == {t \in Threads : pc[t] # "idle"}

\* C27: in every interleaving of callers at most one thread is inside an
\* operation, and it holds the lock: the operations take effect one after
\* the other, in the order in which they obtain the lock.
C27_OneAtATime ==
    /\ Cardinality(InOperation) <= 1
    /\ \A t \in InOperation : lockOwner = t
    /\ (InOperation = {}) => (lockOwner = NoThread)

\* C27 witness: a thread is inside a POST after another operation has
\* changed the store.
C27_Witness ==
    /\ \E t \in Threads : pc[t] = "post" /\ lockOwner = t
    /\ last.op = "request"
    /\ \E a \in Addrs : node[a] # NoRow

\* C28 (as stated): a GET on an existing member that calls the embedded
\* config request eventually returns.
C28_EmbeddedRequestReturns ==
    \A t \in Threads : (pc[t] = "getRequest") ~> (pc[t] = "idle")

-----------------------------------------------------------------------------
(* Network-id coinage: POST /network/<10hex>______                         *)

CoinSuffixBits == 2      \* width of the suffix in the model (24 in the code)
CoinPrefixes == {0, 1}   \* the 10-hex prefixes posted

CoinSuffixes == 0..(Pow2(CoinSuffixBits) - 1)
CoinIds == {MkNwid(p, s) : p \in CoinPrefixes, s \in CoinSuffixes}

\* The do-while loop: probe prefix | postfix and step the postfix, wrapping
\* at the width of the suffix, until an unused id is met or the postfix is
\* back at the one it started from.  nwid stays 0 when no probe succeeds.
RECURSIVE CoinProbe(_, _, _, _)
CoinProbe(nwidPrefix, nwidPostfix, nwidOriginalPostfix, probes) ==
    LET tryNwid == MkNwid(nwidPrefix, nwidPostfix)
        nextPostfix == (nwidPostfix + 1) % Pow2(CoinSuffixBits)
    IN  IF network[tryNwid] = NoRow
        THEN [nwid |-> tryNwid, probes |-> probes]
        ELSE IF nextPostfix = nwidOriginalPostfix
        THEN [nwid |-> 0, probes |-> probes]
        ELSE CoinProbe(nwidPrefix, nextPostfix, nwidOriginalPostfix, probes + 1)

\* POST /network/<prefix>______ with the body {}: the random postfix is
\* `start`; 503 when the search leaves nwid at 0, otherwise the Network row
\* is created as by POST /network/<nwid>.
CoinNetwork(prefix, start, dflt) ==
    LET found == CoinProbe(prefix, start, start, 1)
    IN  IF found.nwid = 0
        THEN /\ last' = [op |-> "coinNetwork", nwid |-> 0, addr |-> 0,
                         arg |-> [prefix |-> prefix, start |-> start,
                                  probes |-> found.probes],
                         rc |-> "503", netconf |-> EmptyDict]
             /\ UNCHANGED <<store, now>>
        ELSE /\ network' = [network EXCEPT ![found.nwid] =
                               [private |-> dflt.private,
                                v4AssignMode |-> dflt.v4AssignMode,
                                revision |-> BumpRevision(0)]]
             /\ last' = [op |-> "coinNetwork", nwid |-> found.nwid, addr |-> 0,
                         arg |-> [prefix |-> prefix, start |-> start,
                                  probes |-> found.probes],
                         rc |-> "200", netconf |-> EmptyDict]
             /\ UNCHANGED <<node, member, ipAssignment, ipAssignmentPool, route, now>>

\* The store of a controller whose network ids are the coinable ones.
InitCoin ==
    /\ network = [n \in CoinIds |-> NoRow]
    /\ node = [a \in Addrs |-> NoRow]
    /\ member = [p \in CoinIds \X Addrs |-> NoRow]
    /\ ipAssignment = {}
    /\ ipAssignmentPool = {}
    /\ route = {}
    /\ rule = <<>>
    /\ now = 1
    /\ last = [op |-> "init", nwid |-> 0, addr |-> 0, arg |-> EmptyDict,
               rc |-> "", netconf |-> EmptyDict]
    /\ lockOwner = NoThread
    /\ pc = [t \in Threads |-> "idle"]

NextCoin ==
    \/ (\E p \in CoinPrefixes, s \in CoinSuffixes :
            CoinNetwork(p, s, [private |-> FALSE, v4AssignMode |-> "none"]))
            /\ UNCHANGED <<threads, rule>>
    \/ (\E n \in CoinIds : DeleteNetwork(n))
            /\ UNCHANGED <<threads, rule>>

SpecCoin == InitCoin /\ [][NextCoin]_vars

\* The unused suffixes of a prefix, and the first of them in incrementing
\* order from `start`, wrapping at the width of the suffix.
FreeSuffixes(prefix) == {s \in CoinSuffixes : network[MkNwid(prefix, s)] = NoRow}
FirstFreeFrom(prefix, start) ==
    LET d == Min({k \in CoinSuffixes :
                    (start + k) % Pow2(CoinSuffixBits) \in FreeSuffixes(prefix)})
    IN  MkNwid(prefix, (start + d) % Pow2(CoinSuffixBits))

\* C29 (as stated): a coinage POST for a prefix with an unused suffix
\* creates exactly one Network row; its id has the prefix as its top 40 bits
\* and the first unused suffix in incrementing order from the random start,
\* and every other Network row is as before.
C29_CoinsUnusedId ==
    [][ (last'.op = "coinNetwork" /\ FreeSuffixes(last'.arg.prefix) # {}) =>
          LET n == FirstFreeFrom(last'.arg.prefix, last'.arg.start)
          IN  /\ last'.rc = "200"
              /\ last'.nwid = n
              /\ n \div Pow2(NwidShift) = last'.arg.prefix
              /\ network[n] = NoRow
              /\ network'[n] # NoRow
              /\ \A m \in CoinIds \ {n} : network'[m] = network[m]
      ]_vars

\* C30 (as stated): the coinage POST returns 503 exactly when every suffix
\* of the prefix is used, for every prefix and every unused suffix, and the
\* search makes at most as many probes as there are suffixes.
C30_ExhaustedIff503 ==
    [][ (last'.op = "coinNetwork") =>
          /\ (last'.rc = "503") <=> (FreeSuffixes(last'.arg.prefix) = {})
          /\ last'.arg.probes <= Pow2(CoinSuffixBits)
      ]_vars

-----------------------------------------------------------------------------
(* Order of the checks of a config request *)

\* The result the first failing step gives, over the store before the request.
FirstFailingStep(l) ==
    LET key == <<l.nwid, l.addr>>
    IN  IF ~l.arg.signingId.hasPrivate THEN "INTERNAL_SERVER_ERROR"
        ELSE IF l.arg.signingId.address # l.nwid \div Pow2(NwidShift)
        THEN "INTERNAL_SERVER_ERROR"
        ELSE IF ~IdentityAccepted(node, l.arg.identity) THEN "ACCESS_DENIED"
        ELSE IF network[l.nwid] = NoRow THEN "OBJECT_NOT_FOUND"
        ELSE IF (IF member[key] # NoRow THEN ~member[key].authorized
                 ELSE network[l.nwid].private)
        THEN "ACCESS_DENIED"
        ELSE IF l.arg.haveRevision > 0 /\ l.arg.haveRevision = network[l.nwid].revision
        THEN "OK_BUT_NOT_NEWER"
        ELSE "OK"

\* C31: the result code of a config request is that of the first failing
\* step in the order signer private key, signer address, identity binding,
\* network lookup, member authorization, revision short-circuit, else OK.
C31_CheckOrder ==
    [][ IsRequest(last') => (last'.rc = FirstFailingStep(last')) ]_vars

\* C31 witness: a request with a valid signer and an identity other than the
\* bound one, for a network that does not exist, was answered ACCESS_DENIED.
C31_Witness ==
    /\ IsRequest(last)
    /\ SignerValid(last.arg.signingId, last.nwid)
    /\ network[last.nwid] = NoRow
    /\ node[last.addr] # NoRow
    /\ ~IdentityEq(IdentityFromString(node[last.addr].identity), last.arg.identity)
    /\ last.rc = "ACCESS_DENIED"

-----------------------------------------------------------------------------
(* Member upsert, step by step: two threads send config requests and      *)
(* member POSTs for one (nwid, addr); each looks the Member row up and     *)
(* inserts it when the lookup gave no row.                                  *)

UpsertAddr == 1
UpsertKey == <<N1, UpsertAddr>>
UpsertIdentity == Identity(UpsertAddr, 1, FALSE)

\* Variant of RequestLookup that does not look at the outcome of _sGetMember.
RequestLookupNoCheck(t) ==
    /\ pc[t] = "request"
    /\ LET ns == NodeStage(NoAddr, UpsertIdentity)
       IN  IF ns.ok /\ network[N1] # NoRow
           THEN /\ node' = ns.node
                /\ pc' = [pc EXCEPT ![t] = "requestCreate"]
           ELSE /\ node' = node
                /\ pc' = [pc EXCEPT ![t] = "requestRest"]
    /\ UNCHANGED <<network, member, ipAssignment, ipAssignmentPool, route, now, last,
                   lockOwner>>

\* doNetworkConfigRequest up to the Member lookup: the Node stage, the
\* network fetch and _sGetMember; foundMember decides whether the row is
\* created.
RequestLookup(t) ==
    /\ pc[t] = "request"
    /\ LET ns == NodeStage(NoAddr, UpsertIdentity)
       IN  IF ns.ok /\ network[N1] # NoRow
           THEN /\ node' = ns.node
                /\ pc' = [pc EXCEPT ![t] = IF member[UpsertKey] # NoRow
                                           THEN "requestRest" ELSE "requestCreate"]
           ELSE /\ node' = node
                /\ pc' = [pc EXCEPT ![t] = "requestRest"]
    /\ UNCHANGED <<network, member, ipAssignment, ipAssignmentPool, route, now, last,
                   lockOwner>>

\* The member POST up to the Member lookup (memberExists).
PostLookup(t) ==
    /\ pc[t] = "post"
    /\ pc' = [pc EXCEPT ![t] = IF network[N1] # NoRow /\ member[UpsertKey] = NoRow
                               THEN "postCreate" ELSE "postRest"]
    /\ UNCHANGED <<store, now, last, lockOwner>>

\* _sCreateMember: INSERT INTO Member.  `existed` tells whether the table
\* held a row for the pair when the statement ran.
MemberCreate(t) ==
    /\ pc[t] \in {"requestCreate", "postCreate"}
    /\ network[N1] # NoRow
    /\ member' = [member EXCEPT ![UpsertKey] =
                    [authorized |-> IF pc[t] = "requestCreate"
                                    THEN RequestMemberAuthorized(network[N1].private)
                                    ELSE PostMemberAuthorized(network[N1].private),
                     activeBridge |-> FALSE]]
    /\ last' = [op |-> "createMember", nwid |-> N1, addr |-> UpsertAddr,
                arg |-> [existed |-> (member[UpsertKey] # NoRow)],
                rc |-> "", netconf |-> EmptyDict]
    /\ pc' = [pc EXCEPT ![t] = IF pc[t] = "requestCreate"
                               THEN "requestRest" ELSE "postRest"]
    /\ UNCHANGED <<network, node, ipAssignment, ipAssignmentPool, route, now, lockOwner>>

\* The rest of the request, from the authorization check to its return.
RequestRest(t) ==
    /\ pc[t] = "requestRest"
    /\ Request({NoAddr}, {LockSigner}, {UpsertIdentity}, {N1}, {0})
    /\ Unlock(t)

\* The rest of the member POST: the body's fields and the answer.
PostRest(t) ==
    /\ pc[t] = "postRest"
    /\ \E b \in AdmMemberBodies : PostMember(N1, UpsertAddr, b)
    /\ Unlock(t)

\* POST /network/<nwid>, whole.
NetworkPostBody(t) ==
    /\ pc[t] = "networkPost"
    /\ \E d \in StoreNetworkDefaults : PostNetwork(N1, LockNetworkBody, d)
    /\ Unlock(t)

UpsertHandlers == {"request", "post", "networkPost", "delete"}

UpsertThreadNext(t) ==
    \/ (\E h \in UpsertHandlers : Lock(t, h)) /\ UNCHANGED rule
    \/ (RequestLookup(t)) /\ UNCHANGED rule
    \/ (PostLookup(t)) /\ UNCHANGED rule
    \/ (MemberCreate(t)) /\ UNCHANGED rule
    \/ (RequestRest(t)) /\ UNCHANGED rule
    \/ (PostRest(t)) /\ UNCHANGED rule
    \/ (NetworkPostBody(t)) /\ UNCHANGED rule
    \/ (DeleteBody(t)) /\ UNCHANGED rule

NextUpsert == \E t \in Threads : UpsertThreadNext(t)

SpecUpsert == Init /\ [][NextUpsert]_vars

\* C32: whatever the interleaving of config requests and member POSTs for
\* one (nwid, addr), a Member row is inserted only when the table holds no
\* row for that pair, so the table never holds two.
C32_OneMemberRow ==
    [][ (last'.op = "createMember") => ~last'.arg.existed ]_vars

\* C32 witness: a member POST has inserted the Member row of an address
\* whose Node row a config request had written, after the row had been
\* deleted once.
C32_Witness ==
    /\ last.op = "createMember"
    /\ \E t \in Threads : pc[t] = "postRest"
    /\ node[UpsertAddr] # NoRow
    /\ member[UpsertKey] # NoRow

-----------------------------------------------------------------------------
(* Node bookkeeping: the clock advances between requests, and requests     *)
(* arrive directly (with a peer address) or relayed (without one).          *)

MaxNow == 3
PeerAddrs == {"192.0.2.1/9993", "192.0.2.2/9993"}

\* Two identities that claim one address.
NodeRequesters == {Identity(UpsertAddr, k, FALSE) : k \in Keys}

\* OSUtils::now() moves on between two operations.
Tick ==
    /\ now < MaxNow
    /\ now' = now + 1
    /\ last' = [op |-> "tick", nwid |-> 0, addr |-> 0, arg |-> EmptyDict,
                rc |-> "", netconf |-> EmptyDict]
    /\ UNCHANGED <<store, threads>>

NextNode ==
    \/ Tick
    \/ (Request({NoAddr} \cup PeerAddrs, Signers, NodeRequesters, {N1}, {0}))
            /\ UNCHANGED <<threads, rule>>
    \/ (\E d \in StoreNetworkDefaults : PostNetwork(N1, LockNetworkBody, d))
            /\ UNCHANGED <<threads, rule>>
    \/ (DeleteMember(N1, UpsertAddr))
            /\ UNCHANGED <<threads, rule>>

SpecNode == Init /\ [][NextNode]_vars

\* The request of step l comes from a node whose row exists.
FromKnownNode(l) == IsRequest(l) /\ node[l.addr] # NoRow

\* What the request of step l does to the Node row of its sender when the
\* stored identity equals the sender's.
NodeRowTouched(l) ==
    /\ node'[l.addr] # NoRow
    /\ node'[l.addr].lastSeen = now
    /\ node'[l.addr].lastAt = (IF l.arg.fromAddr # NoAddr THEN l.arg.fromAddr
                               ELSE node[l.addr].lastAt)
    /\ node'[l.addr].firstSeen = node[l.addr].firstSeen
    /\ node'[l.addr].identity = node[l.addr].identity

NodeRowEffect(l) ==
    IF IdentityEq(IdentityFromString(node[l.addr].identity), l.arg.identity)
    THEN NodeRowTouched(l)
    ELSE node' = node

\* C33 (as stated): every config request from a known node with the matching
\* identity sets lastSeen to now, sets lastAt only when it carries a peer
\* address, and leaves firstSeen and identity alone; one with a mismatching
\* identity changes none of the fields.
C33_EveryRequestStamps ==
    [][ FromKnownNode(last') => NodeRowEffect(last') ]_vars

\* C33 (amended): the same for every config request that passes the checks
\* of the signing identity; a request stopped by those checks leaves the
\* Node table as it is; and no operation removes a Node row or changes its
\* firstSeen or identity.
C33_AdmittedRequestStamps ==
    [][ /\ (FromKnownNode(last') /\ SignerValid(last'.arg.signingId, last'.nwid))
            => NodeRowEffect(last')
        /\ (IsRequest(last') /\ ~SignerValid(last'.arg.signingId, last'.nwid))
            => (node' = node)
        /\ \A a \in Addrs : node[a] # NoRow =>
              /\ node'[a] # NoRow
              /\ node'[a].firstSeen = node[a].firstSeen
              /\ node'[a].identity = node[a].identity ]_vars

\* C33 witness: a relayed request (no peer address) from a node created at
\* an earlier time and last seen at a peer address has been answered: its
\* lastSeen is the present time, its lastAt and firstSeen are the old ones.
C33_Witness ==
    /\ IsAdmittedRequest(last)
    /\ last.arg.fromAddr = NoAddr
    /\ node[last.addr] # NoRow
    /\ node[last.addr].lastSeen = now
    /\ node[last.addr].firstSeen < now
    /\ node[last.addr].lastAt \in PeerAddrs

-----------------------------------------------------------------------------
(* The revision short-circuit against the admin operations that change a   *)
(* member's configuration.                                                  *)

\* The member is one whose request would be answered with a dictionary.
IsServedMember(nw, mb, nwid, a) ==
    /\ nw[nwid] # NoRow
    /\ mb[<<nwid, a>>] # NoRow
    /\ MemberAuthorized(mb[<<nwid, a>>])

\* V4Static over a given IpAssignment table.
V4StaticIn(rows, nwid, a) ==
    {<<BlobToIpv4(r.ip), r.ipNetmaskBits>> :
        r \in {x \in rows : /\ x.networkId = nwid /\ x.nodeId = a
                             /\ x.ipVersion = 4
                             /\ x.ipNetmaskBits > 0
                             /\ x.ipNetmaskBits <= Ipv4MaxBits}}

\* C34: OK_BUT_NOT_NEWER is returned only for unchanged configurations.  A
\* request that carries the revision R the member holds is short-circuited
\* exactly when R is still the network's revision, so a member POST that
\* changes the assigned IPv4 addresses a served member's dictionary lists
\* has to leave the network at a revision that R no longer matches.
C34_ChangeBreaksShortCircuit ==
    [][ \A a \in Addrs :
          ( /\ last'.op = "postMember"
            /\ IsServedMember(network, member, last'.nwid, a)
            /\ IsServedMember(network', member', last'.nwid, a)
            /\ V4StaticIn(ipAssignment', last'.nwid, a)
                  # V4StaticIn(ipAssignment, last'.nwid, a) )
          => ~NotNewer(network[last'.nwid].revision, network'[last'.nwid].revision)
      ]_vars

-----------------------------------------------------------------------------
(* The revision of one network id over the admin operations.                *)

NextRev ==
    \/ (Request({NoAddr}, {LockSigner}, NodeRequesters, {N1}, 0..MaxRev))
            /\ UNCHANGED <<threads, rule>>
    \/ (\E b \in AdmNetworkBodies, d \in StoreNetworkDefaults : PostNetwork(N1, b, d))
            /\ UNCHANGED <<threads, rule>>
    \/ (DeleteNetwork(N1))
            /\ UNCHANGED <<threads, rule>>

\* Each handler returns once it is called.
SpecRev == Init /\ [][NextRev]_vars /\ WF_vars(NextRev)

\* The network exists at revision r or beyond.
RevisionAtLeast(nwid, r) == network[nwid] # NoRow /\ network[nwid].revision >= r

\* C35: the revision of a network id never decreases: once the network has
\* been at revision r, every later state in which the id exists has a
\* revision of at least r, also after the network was deleted and created
\* again.
C35_RevisionMonotonic ==
    \A r \in 1..MaxRev :
        [](RevisionAtLeast(N1, r) => [](network[N1] # NoRow => RevisionAtLeast(N1, r)))

-----------------------------------------------------------------------------
(* Two networks of one controller: pools and routes of each, and members   *)
(* that ask for an address.                                                 *)

CrossNets == {N1, N2}

CrossNetworkBodies ==
    [private : {<<>>}, v4AssignMode : Opt({"zt"}),
     routes : Opt(SeqUpTo(PostedRoutes, MaxList)),
     ipAssignmentPools : Opt(SeqUpTo(PostedPools, MaxList))]

NextCross ==
    \/ (Request({NoAddr}, {LockSigner}, {UpsertIdentity}, CrossNets, {0}))
            /\ UNCHANGED <<threads, rule>>
    \/ (\E n \in CrossNets, b \in CrossNetworkBodies :
           \E d \in {x \in StoreNetworkDefaults : ~x.private} : PostNetwork(n, b, d))
            /\ UNCHANGED <<threads, rule>>
    \/ (\E n \in CrossNets : DeleteMember(n, UpsertAddr))
            /\ UNCHANGED <<threads, rule>>

SpecCross == Init /\ [][NextCross]_vars

\* The routes of the network itself that match a pool's routeIp.
OwnRoutes(nwid, p) == {r \in PairedRoutes(p) : r.networkId = nwid}

\* The network has a pool whose route is a row of the network itself.
HasOwnRoutedPool(nwid) ==
    \E p \in ipAssignmentPool : p.networkId = nwid /\ OwnRoutes(nwid, p) # {}

\* C36: a pool of network N whose route is missing in N is treated as not
\* present, whatever rows other networks hold: a request that comes to the
\* allocator of a network none of whose pools has a route of the network
\* itself is given no address and inserts no IpAssignment row.
C36_OwnRouteOnly ==
    [][ (ComesToAllocator(last') /\ ~HasOwnRoutedPool(last'.nwid))
          => /\ ipAssignment' = ipAssignment
             /\ "v4s" \notin DOMAIN last'.netconf ]_vars

-----------------------------------------------------------------------------
(* Rules: the controller is constructed on a database that holds network   *)
(* N1, possibly with rules; requests read them and the network POST        *)
(* rewrites them.                                                           *)

MaxRules == 2
EtherTypeIpv4 == 2048
EtherTypeArp == 2054

\* The rows a Rule table may hold at position k.
SeedRules(k) ==
    [networkId : {N1}, ruleNo : {k},
     etherType : Opt({EtherTypeIpv4, EtherTypeArp}),
     action : {<<"accept">>, <<"drop">>}]

SeedTables ==
    UNION {{sq \in [1..n -> UNION {SeedRules(k) : k \in 1..MaxRules}] :
                \A k \in 1..n : sq[k].ruleNo = k} : n \in 0..MaxRules}

InitRule ==
    /\ network = [n \in NwIds |->
                    IF n = N1 THEN [private |-> FALSE, v4AssignMode |-> "none", revision |-> 1]
                    ELSE NoRow]
    /\ node = [a \in Addrs |-> NoRow]
    /\ member = [p \in NwIds \X Addrs |-> NoRow]
    /\ ipAssignment = {}
    /\ ipAssignmentPool = {}
    /\ route = {}
    /\ rule \in SeedTables
    /\ now = 1
    /\ last = [op |-> "init", nwid |-> 0, addr |-> 0, arg |-> EmptyDict,
               rc |-> "", netconf |-> EmptyDict]
    /\ lockOwner = NoThread
    /\ pc = [t \in Threads |-> "idle"]

PostedRules ==
    [ruleNo : Opt({1}), etherType : Opt({EtherTypeIpv4}), flags : Opt({0}),
     action : Opt({"accept", ""})]

RuleNetworkBodies ==
    [private : {<<>>}, v4AssignMode : {<<>>}, routes : {<<>>}, ipAssignmentPools : {<<>>},
     rules : Opt(SeqUpTo(PostedRules, MaxList))]

NextRule ==
    \/ (Request({NoAddr}, {LockSigner}, {UpsertIdentity}, {N1}, {0}))
            /\ UNCHANGED <<threads, rule>>
    \/ (\E b \in RuleNetworkBodies :
           \E d \in {x \in StoreNetworkDefaults : ~x.private} : PostNetwork(N1, b, d))
            /\ UNCHANGED threads
    \/ (DeleteNetwork(N1))
            /\ UNCHANGED threads

SpecRule == InitRule /\ [][NextRule]_vars

\* The elements of a set of integers, ascending.
RECURSIVE Ascending(_)
Ascending(S) == IF S = {} THEN <<>> ELSE <<Min(S)>> \o Ascending(S \ {Min(S)})

\* The ether-types of the network's accept rules that have one.
AcceptedEtherTypes(nwid) ==
    {Val(rule[k].etherType) :
        k \in {i \in DOMAIN rule : /\ rule[i].networkId = nwid
                                   /\ rule[i].action = <<"accept">>
                                   /\ Has(rule[i].etherType)}}

C38_NoEmptyCollectionKey ==
    [][ (IsRequest(last') /\ last'.rc = "OK")
          => /\ ("et" \in DOMAIN last'.netconf) => (last'.netconf["et"] # <<>>)
             /\ ("ab" \in DOMAIN last'.netconf) => (last'.netconf["ab"] # {})
             /\ ("v4s" \in DOMAIN last'.netconf) => (last'.netconf["v4s"] # {}) ]_vars

\* The action the GET view shows for a Rule row.
RuleViewAction(r) == IF Has(r.action) THEN Val(r.action) ELSE "drop"

\* The posted rules that are to be stored, as (ruleNo, action).
PostedComplete(list) ==
    {<<Val(list[k].ruleNo), Val(list[k].action)>> :
        k \in {i \in DOMAIN list : RuleComplete(list[i])}}

\* C39: after a POST that carries a rules list, the network's Rule rows are
\* those of the posted rules that have a ruleNo and a non-empty action, each
\* with exactly the posted ruleNo and action, and the view rendered after
\* the POST shows that action.
C39_RuleStoredAsPosted ==
    [][ ( /\ last'.op = "postNetwork"
          /\ "rules" \in DOMAIN last'.arg.body
          /\ Has(last'.arg.body.rules) )
        => LET rows == SelectSeq(rule', LAMBDA r : r.networkId = last'.nwid)
               posted == PostedComplete(Val(last'.arg.body.rules))
           IN  /\ {<<rows[k].ruleNo, rows[k].action>> : k \in DOMAIN rows}
                    = {<<p[1], <<p[2]>>>> : p \in posted}
               /\ {<<rows[k].ruleNo, RuleViewAction(rows[k])>> : k \in DOMAIN rows}
                    = posted ]_vars

-----------------------------------------------------------------------------
(* GET and the store *)

\* Where a thread is while it runs handleControlPlaneHttpGET.
GetPositions == {"get", "getRequest", "getReturn"}

====
